---- MODULE Spec2Model ----
(***************************************************************************)
(* License activation/validation engine of tlat-license-server.            *)
(*                                                                         *)
(* The store is the SQLite database of src/db/init.js (tables licenses,    *)
(* activations, audit_log).  The engine is src/services/license.js (the    *)
(* multi-product version, lines 333-745).  Every SQL statement runs in its *)
(* own implicit transaction: the engine opens no transaction of its own.   *)
(*                                                                         *)
(* Spec       : one server process; every call runs to completion.         *)
(* SeqSpec    : the same calls, with the activate and deactivate calls and *)
(*              their outcomes recorded in hist.                           *)
(* WorkersSpec: request workers sharing the database file; an              *)
(*              activateLicense request is three store steps (license      *)
(*              lookup, read of the active activations, UPDATE or INSERT)  *)
(*              that interleave with the steps of the other worker.        *)
(***************************************************************************)
EXTENDS Integers, Sequences, FiniteSets, TLC

VARIABLES licenses, activations, auditLog, nextLicenseId, nextActivationId,
          now, reqs, last, hist, products, issued, lastValidate, http, classify

vars == <<licenses, activations, auditLog, nextLicenseId, nextActivationId,
          now, reqs, last, hist, products, issued, lastValidate, http, classify>>

store == <<licenses, activations, auditLog, nextLicenseId, nextActivationId>>

\* the products table, the tokens handed out so far, and what the validateLicense
\* call that just returned was given (token, product slug) and told of the product;
\* the HTTP request the server is working on or answered last; the argument and
\* the answer of the isDevEnvironment call under study
aux == <<products, issued, lastValidate, http, classify>>

(***************************************************************************)
(* Bounds and input sets                                                   *)
(***************************************************************************)
\* the clock runs over 0..MaxTime
MaxTime == 1

\* number of engine calls in a run
MaxCalls == 3

\* the longest domain, in labels, of the classifier's inputs
MaxLabels == 3

\* SQL NULL / JS null or undefined; a present value v is <<v>>
Null == <<>>

\* keys the generator can draw (generateLicenseKey is random over its keyspace)
Keys == {"TLAT-AAAA", "TLAT-BBBB"}

\* domains, as the sequence of their dot-separated labels
Domains == { <<"example", "com">>, <<"shop", "example", "com">>, <<"other", "org">>,
             <<"site", "local">>, <<"localhost">> }

MaxActivationsChoices == {1, 2}

ExpiresAtChoices == {Null, <<0>>}

SiteInfos == { [wpVersion |-> Null, pluginVersion |-> Null],
               [wpVersion |-> <<"6.4">>, pluginVersion |-> <<"1.0.0">>] }

Reqs == {1, 2}

\* the email of the customer the licenses are made for
DefaultEmail == "customer@example.com"

\* product slugs the admin enters
Slugs == {"tutor-lms-tracking", "other-plugin"}

\* current_version of a new product (currentVersion = '1.0.0') and of an update
DefaultVersion == "1.0.0"

NewVersion == "2.0.0"

\* one year on the model's clock: further than the clock runs
OneYear == MaxTime + 1

(***************************************************************************)
(* Domain classifier                                                       *)
(***************************************************************************)
\* String.prototype.toLowerCase on one label
ToLowerLabel(l) ==
  CASE l = "LOCALHOST" -> "localhost"
    [] l = "LOCAL" -> "local"
    [] l = "STAGING" -> "staging"
    [] l = "EXAMPLE" -> "example"
    [] l = "COM" -> "com"
    [] OTHER -> l

ToLower(domain) == [i \in 1..Len(domain) |-> ToLowerLabel(domain[i])]

\* mutant of IsDevEnvironment: the domain is matched as given, not lower-cased
IsDevEnvironmentCaseSensitive(domain) ==
  IF domain = <<"">> THEN FALSE
  ELSE LET d == domain
           n == Len(d)
       IN \/ d = <<"localhost">>
          \/ d = <<"127", "0", "0", "1">>
          \/ (n >= 3 /\ d[1] = "192" /\ d[2] = "168")
          \/ (n >= 2 /\ d[1] = "10")
          \/ (n >= 2 /\ d[n] \in {"local", "test", "localhost", "dev"})
          \/ (n >= 2 /\ d[1] \in {"staging", "dev", "test", "local"})
          \/ (\E i \in 2..(n-1) : d[i] \in {"staging", "dev", "test"})
          \/ (\E i \in 2..(n-1) : d[i] \in {"localwp", "lndo", "ddev"})

\* isDevEnvironment(domain): dev/staging domains do not count toward the limit
IsDevEnvironment(domain) ==
  IF domain = <<"">> THEN FALSE
  ELSE LET d == ToLower(domain)
           n == Len(d)
       IN \/ d = <<"localhost">>
          \/ d = <<"127", "0", "0", "1">>
          \/ (n >= 3 /\ d[1] = "192" /\ d[2] = "168")
          \/ (n >= 2 /\ d[1] = "10")
          \/ (n >= 2 /\ d[n] \in {"local", "test", "localhost", "dev"})
          \/ (n >= 2 /\ d[1] \in {"staging", "dev", "test", "local"})
          \/ (\E i \in 2..(n-1) : d[i] \in {"staging", "dev", "test"})
          \/ (\E i \in 2..(n-1) : d[i] \in {"localwp", "lndo", "ddev"})

(***************************************************************************)
(* Store reads                                                             *)
(***************************************************************************)
\* SELECT * FROM licenses WHERE license_key = ?  (the set holds 0 or 1 row)
GetLicenseByKey(key) == {l \in licenses : l.licenseKey = key}

\* SELECT * FROM activations WHERE license_id = ? AND is_active = 1
GetActiveActivations(licenseId) ==
  {a \in activations : a.licenseId = licenseId /\ a.isActive}

\* mutant of IsExpired: the comparison turned round
IsExpiredReversed(license) == license.expiresAt # Null /\ license.expiresAt[1] > now

\* license.expires_at && new Date(license.expires_at) < new Date()
IsExpired(license) == license.expiresAt # Null /\ license.expiresAt[1] < now

\* COALESCE(?, column)
Coalesce(new, old) == IF new # Null THEN new ELSE old

(***************************************************************************)
(* Results                                                                 *)
(***************************************************************************)
\* { success: true, ... }; existing: the "already activated" answer;
\* remaining: the remaining field, when the answer carries one
Ok(existing, remaining) ==
  [ok |-> TRUE, error |-> "none", thrown |-> FALSE, existing |-> existing, remaining |-> remaining]

\* { success: false, error: tag, ... }
Err(tag) ==
  [ok |-> FALSE, error |-> tag, thrown |-> FALSE, existing |-> FALSE, remaining |-> Null]

\* a SqliteError leaving the engine function as an exception
Thrown(code) ==
  [ok |-> FALSE, error |-> code, thrown |-> TRUE, existing |-> FALSE, remaining |-> Null]

Pending ==
  [ok |-> FALSE, error |-> "pending", thrown |-> FALSE, existing |-> FALSE, remaining |-> Null]

IdleReq == [pc |-> "idle", key |-> "", domain |-> <<>>, info |-> [wpVersion |-> Null, pluginVersion |-> Null],
            license |-> {}, acts |-> {}, result |-> Pending]

NoCall == [seq |-> 0, op |-> "none", key |-> "", domain |-> <<>>, result |-> Pending]

\* the record of the call that just returned; seq numbers the calls of the run
Call(op, key, domain, result) ==
  [seq |-> last.seq + 1, op |-> op, key |-> key, domain |-> domain, result |-> result]

\* validateLicense called with neither token nor product slug
NoValidate == [token |-> Null, productSlug |-> Null, product |-> Null]

\* no HTTP request received yet
NoRequest ==
  [path |-> "none", authorization |-> Null, xApiKey |-> Null, key |-> "", domain |-> Null,
   token |-> Null, productSlug |-> Null, stage |-> "none", by |-> "none", status |-> Null]

\* isDevEnvironment not called
NoClassify == [domain |-> <<>>, answer |-> "none"]

\* the run makes at most MaxCalls calls
MayCall == last.seq < MaxCalls

(***************************************************************************)
(* Init: the database right after initDatabase() - empty tables            *)
(***************************************************************************)
Init ==
  /\ licenses = {}
  /\ activations = {}
  /\ auditLog = <<>>
  /\ nextLicenseId = 1
  /\ nextActivationId = 1
  /\ now = 0
  /\ reqs = [r \in Reqs |-> IdleReq]
  /\ last = NoCall
  /\ hist = <<>>
  /\ products = {}
  /\ issued = {}
  /\ lastValidate = NoValidate
  /\ http = NoRequest
  /\ classify = NoClassify

\* time passes
Tick ==
  /\ now < MaxTime
  /\ now' = now + 1
  /\ UNCHANGED <<store, reqs, last, hist, aux>>

(***************************************************************************)
(* Store writes                                                            *)
(***************************************************************************)
\* mutant of LicenseKeyTaken: the column without its UNIQUE constraint
LicenseKeyNeverTaken(key) == FALSE

\* license_key TEXT UNIQUE NOT NULL
LicenseKeyTaken(key) == \E l \in licenses : l.licenseKey = key

\* mutant of ActivationPairTaken: the table without UNIQUE(license_id, domain)
ActivationPairNeverTaken(licenseId, domain) == FALSE

\* UNIQUE(license_id, domain): inactive rows count too
ActivationPairTaken(licenseId, domain) ==
  \E a \in activations : a.licenseId = licenseId /\ a.domain = domain

\* mutant of LogAudit: the entry is written twice
LogAuditTwice(log, licenseId, action, domain) ==
  log \o << [licenseId |-> licenseId, action |-> action, domain |-> domain],
            [licenseId |-> licenseId, action |-> action, domain |-> domain] >>

\* INSERT INTO audit_log (license_id, action, domain, ...)
LogAudit(log, licenseId, action, domain) ==
  Append(log, [licenseId |-> licenseId, action |-> action, domain |-> domain])

\* the row INSERT INTO activations (...) VALUES (?, ?, ?, ?, ?, datetime('now')) adds
NewActivation(licenseId, domain, info) ==
  [id |-> nextActivationId, licenseId |-> licenseId, domain |-> domain,
   wpVersion |-> info.wpVersion, pluginVersion |-> info.pluginVersion,
   activatedAt |-> now, lastHeartbeat |-> <<now>>,
   isActive |-> TRUE, deactivatedAt |-> Null]

\* mutant of Touch: the row is written afresh, activated_at included
TouchResetsActivatedAt(a, info) ==
  [a EXCEPT !.lastHeartbeat = <<now>>,
            !.activatedAt = now,
            !.wpVersion = Coalesce(info.wpVersion, @),
            !.pluginVersion = Coalesce(info.pluginVersion, @)]

\* SET last_heartbeat = datetime('now'), wp_version = COALESCE(?, wp_version), ...
Touch(a, info) ==
  [a EXCEPT !.lastHeartbeat = <<now>>,
            !.wpVersion = Coalesce(info.wpVersion, @),
            !.pluginVersion = Coalesce(info.pluginVersion, @)]

\* UPDATE activations SET ... WHERE id = ?
TouchById(id, info) ==
  {IF a.id = id THEN Touch(a, info) ELSE a : a \in activations}

\* mutant of LimitReached: > for >=
LimitReachedOffByOne(isDev, productionCount, maxActivations) ==
  ~isDev /\ productionCount > maxActivations

\* mutant of LimitReached: the development exemption dropped
LimitReachedForDev(isDev, productionCount, maxActivations) ==
  productionCount >= maxActivations

\* mutant of LimitReached: = for >=
LimitReachedAtCapOnly(isDev, productionCount, maxActivations) ==
  ~isDev /\ productionCount = maxActivations

\* !isDev && productionActivations.length >= license.max_activations
LimitReached(isDev, productionCount, maxActivations) ==
  ~isDev /\ productionCount >= maxActivations

(***************************************************************************)
(* createLicense                                                           *)
(***************************************************************************)
\* lines 365-395; key is the value generateLicenseKey() returned; email is
\* stored as given
CreateWriteWith(productId, email, key, maxActivations, expiresAt) ==
  IF LicenseKeyTaken(key)
  THEN \* stmt.run throws; nothing is caught, nothing is retried
       [licenses |-> licenses, nextLicenseId |-> nextLicenseId, auditLog |-> auditLog,
        result |-> Thrown("SQLITE_CONSTRAINT_UNIQUE")]
  ELSE [licenses |-> licenses \cup
          {[id |-> nextLicenseId, licenseKey |-> key, productId |-> productId, email |-> email,
            maxActivations |-> maxActivations, expiresAt |-> expiresAt]},
        nextLicenseId |-> nextLicenseId + 1,
        auditLog |-> LogAudit(auditLog, nextLicenseId, "created", Null),
        result |-> Ok(FALSE, Null)]

\* createLicense for the customer of these runs
CreateWriteFor(productId, key, maxActivations, expiresAt) ==
  CreateWriteWith(productId, DefaultEmail, key, maxActivations, expiresAt)

\* createLicense without productId (productId = null by default)
CreateWrite(key, maxActivations, expiresAt) ==
  CreateWriteFor(Null, key, maxActivations, expiresAt)

CreateLicense(key, maxActivations, expiresAt) ==
  /\ MayCall
  /\ LET w == CreateWrite(key, maxActivations, expiresAt)
     IN /\ licenses' = w.licenses
        /\ nextLicenseId' = w.nextLicenseId
        /\ auditLog' = w.auditLog
        /\ last' = Call("create", key, Null, w.result)
  /\ UNCHANGED <<activations, nextActivationId, now, reqs, hist, aux>>

(***************************************************************************)
(* activateLicense                                                         *)
(***************************************************************************)
\* mutant of ListActivations: the development activations are left out
ListProductionOnly(acts) ==
  {[domain |-> a.domain, activatedAt |-> a.activatedAt,
    isDevEnvironment |-> IsDevEnvironment(a.domain)] : a \in {b \in acts : ~IsDevEnvironment(b.domain)}}

\* lines 503-507: activations.map(a => ({domain, activatedAt, isDevEnvironment})),
\* the list a limit_reached answer carries
ListActivations(acts) ==
  {[domain |-> a.domain, activatedAt |-> a.activatedAt,
    isDevEnvironment |-> IsDevEnvironment(a.domain)] : a \in acts}

\* mutant of DevCount: the activation just made is not counted
DevCountWithoutNew(acts, isDev) ==
  Cardinality({a \in acts : IsDevEnvironment(a.domain)})

\* line 544: activations.filter(a => isDevEnvironment(a.domain)).length + (isDev ? 1 : 0)
DevCount(acts, isDev) ==
  Cardinality({a \in acts : IsDevEnvironment(a.domain)}) + (IF isDev THEN 1 ELSE 0)

\* mutant of ActivateWrite: the limit check ahead of the already-activated check
ActivateWriteLimitFirst(license, acts, domain, info) ==
  LET existing == {a \in acts : a.domain = domain}
      isDev == IsDevEnvironment(domain)
      productionActivations == {a \in acts : ~IsDevEnvironment(a.domain)}
      newProductionCount == IF isDev THEN Cardinality(productionActivations)
                            ELSE Cardinality(productionActivations) + 1
      same == [activations |-> activations, auditLog |-> auditLog,
               nextActivationId |-> nextActivationId]
  IN IF LimitReached(isDev, Cardinality(productionActivations), license.maxActivations)
     THEN same @@ [result |-> Err("limit_reached") @@
                                [activations |-> ListActivations(acts)]]
     ELSE IF existing # {}
     THEN [same EXCEPT !.activations = TouchById((CHOOSE a \in existing : TRUE).id, info)]
            @@ [result |-> Ok(TRUE, Null)]
     ELSE IF ActivationPairTaken(license.id, domain)
     THEN same @@ [result |-> Thrown("SQLITE_CONSTRAINT_UNIQUE")]
     ELSE [activations |-> activations \cup {NewActivation(license.id, domain, info)},
           auditLog |-> LogAudit(auditLog, license.id, "activated", domain),
           nextActivationId |-> nextActivationId + 1,
           result |-> Ok(FALSE, <<license.maxActivations - newProductionCount>>) @@
                        [productionActivations |-> newProductionCount,
                         devActivations |-> DevCount(acts, isDev)]]

\* lines 469-545: from the loaded activations to the answer.  license and
\* acts are what the request read earlier; the UPDATE and the INSERT act on
\* the store as it is now.
ActivateWrite(license, acts, domain, info) ==
  LET existing == {a \in acts : a.domain = domain}
      isDev == IsDevEnvironment(domain)
      productionActivations == {a \in acts : ~IsDevEnvironment(a.domain)}
      newProductionCount == IF isDev THEN Cardinality(productionActivations)
                            ELSE Cardinality(productionActivations) + 1
      same == [activations |-> activations, auditLog |-> auditLog,
               nextActivationId |-> nextActivationId]
  IN IF existing # {}
     THEN [same EXCEPT !.activations = TouchById((CHOOSE a \in existing : TRUE).id, info)]
            @@ [result |-> Ok(TRUE, Null)]
     ELSE IF LimitReached(isDev, Cardinality(productionActivations), license.maxActivations)
     THEN same @@ [result |-> Err("limit_reached") @@
                                [activations |-> ListActivations(acts)]]
     ELSE IF ActivationPairTaken(license.id, domain)
     THEN same @@ [result |-> Thrown("SQLITE_CONSTRAINT_UNIQUE")]
     ELSE [activations |-> activations \cup {NewActivation(license.id, domain, info)},
           auditLog |-> LogAudit(auditLog, license.id, "activated", domain),
           nextActivationId |-> nextActivationId + 1,
           result |-> Ok(FALSE, <<license.maxActivations - newProductionCount>>) @@
                        [productionActivations |-> newProductionCount,
                         devActivations |-> DevCount(acts, isDev)]]

\* lines 457-467: license lookup and expiry check
BeginBody(r, key, domain, info) ==
  LET ls == GetLicenseByKey(key)
      q == [IdleReq EXCEPT !.key = key, !.domain = domain, !.info = info]
  IN /\ reqs' = [reqs EXCEPT ![r] =
          IF ls = {} THEN [q EXCEPT !.pc = "done", !.result = Err("invalid_key")]
          ELSE IF IsExpired(CHOOSE l \in ls : TRUE)
          THEN [q EXCEPT !.pc = "done", !.result = Err("expired")]
          ELSE [q EXCEPT !.pc = "licensed", !.license = ls]]
     /\ UNCHANGED <<store, now, last, hist, aux>>

ActBegin(r, key, domain, info) ==
  /\ reqs[r].pc = "idle"
  /\ BeginBody(r, key, domain, info)

\* line 470: getActiveActivations(license.id)
ActLoad(r) ==
  /\ reqs[r].pc = "licensed"
  /\ reqs' = [reqs EXCEPT ![r].pc = "loaded",
                          ![r].acts = GetActiveActivations((CHOOSE l \in reqs[r].license : TRUE).id)]
  /\ UNCHANGED <<store, now, last, hist, aux>>

\* lines 473-545
ActWrite(r) ==
  /\ reqs[r].pc = "loaded"
  /\ LET w == ActivateWrite(CHOOSE l \in reqs[r].license : TRUE, reqs[r].acts,
                            reqs[r].domain, reqs[r].info)
     IN /\ activations' = w.activations
        /\ auditLog' = w.auditLog
        /\ nextActivationId' = w.nextActivationId
        /\ reqs' = [reqs EXCEPT ![r].pc = "done", ![r].result = w.result]
  /\ UNCHANGED <<licenses, nextLicenseId, now, last, hist, aux>>

(***************************************************************************)
(* deactivateLicense, validateLicense, recordHeartbeat                     *)
(***************************************************************************)
\* mutant of DeactivateRows: is_active is cleared without a timestamp
DeactivateRowsUnstamped(licenseId, domain) ==
  {IF a.licenseId = licenseId /\ a.domain = domain /\ a.isActive
   THEN [a EXCEPT !.isActive = FALSE]
   ELSE a : a \in activations}

\* mutant of DeactivateRows: the matching row is deleted, not kept
DeactivateRowsDeleting(licenseId, domain) ==
  {a \in activations : ~(a.licenseId = licenseId /\ a.domain = domain /\ a.isActive)}

\* UPDATE activations SET is_active = 0, deactivated_at = datetime('now')
\* WHERE license_id = ? AND domain = ? AND is_active = 1
DeactivateRows(licenseId, domain) ==
  {IF a.licenseId = licenseId /\ a.domain = domain /\ a.isActive
   THEN [a EXCEPT !.isActive = FALSE, !.deactivatedAt = <<now>>]
   ELSE a : a \in activations}

\* mutant of DeactivateWrite: remaining is computed over the production
\* activations only
DeactivateWriteProductionOnly(key, domain) ==
  LET ls == GetLicenseByKey(key)
      license == CHOOSE l \in ls : TRUE
      same == [activations |-> activations, auditLog |-> auditLog]
      after == DeactivateRows(license.id, domain)
      remaining == Cardinality({a \in after : /\ a.licenseId = license.id /\ a.isActive
                                              /\ ~IsDevEnvironment(a.domain)})
  IN IF ls = {} THEN same @@ [result |-> Err("invalid_key")]
     ELSE IF after = activations THEN same @@ [result |-> Err("not_found")]
     ELSE [activations |-> after,
           auditLog |-> LogAudit(auditLog, license.id, "deactivated", domain),
           result |-> Ok(FALSE, <<license.maxActivations - remaining>>)]

\* lines 551-580
DeactivateWrite(key, domain) ==
  LET ls == GetLicenseByKey(key)
      license == CHOOSE l \in ls : TRUE
      same == [activations |-> activations, auditLog |-> auditLog]
      after == DeactivateRows(license.id, domain)
      remaining == Cardinality({a \in after : a.licenseId = license.id /\ a.isActive})
  IN IF ls = {} THEN same @@ [result |-> Err("invalid_key")]
     ELSE IF after = activations THEN same @@ [result |-> Err("not_found")]
     ELSE [activations |-> after,
           auditLog |-> LogAudit(auditLog, license.id, "deactivated", domain),
           result |-> Ok(FALSE, <<license.maxActivations - remaining>>)]

DeactivateLicense(key, domain) ==
  /\ MayCall
  /\ LET w == DeactivateWrite(key, domain)
     IN /\ activations' = w.activations
        /\ auditLog' = w.auditLog
        /\ last' = Call("deactivate", key, domain, w.result)
  /\ UNCHANGED <<licenses, nextLicenseId, nextActivationId, now, reqs, hist, aux>>

\* jwt.sign({licenseKey, domain, plan, exp}, JWT_SECRET): the claims the engine
\* reads back, and the signer
GenerateToken(license, domain) ==
  [licenseKey |-> license.licenseKey, domain |-> domain,
   exp |-> IF license.expiresAt # Null THEN license.expiresAt[1] ELSE now + OneYear,
   signedBy |-> "server"]

\* a string that is no JWT
Garbage == [licenseKey |-> "", domain |-> <<>>, exp |-> 0, signedBy |-> "nobody"]

\* the same claims under a signature made with another secret
Forged(t) == [t EXCEPT !.signedBy = "other"]

\* jwt.verify(token, JWT_SECRET): the signature first, then the exp claim
\* (expired when the clock has reached exp)
JwtVerify(t) ==
  IF t.signedBy # "server" THEN "JsonWebTokenError"
  ELSE IF now >= t.exp THEN "TokenExpiredError"
  ELSE "ok"

\* mutant of ProductOf: only a product that is active is found
ProductOfActiveOnly(license) ==
  {p \in products : <<p.id>> = license.productId /\ p.isActive}

\* SELECT * FROM products WHERE id = license.product_id  (0 or 1 row)
ProductOf(license) == {p \in products : <<p.id>> = license.productId}

\* decoded.f of a verified token: <<value>>, or Null (undefined) when the
\* payload has no such claim
ClaimOf(t, f) == IF f \in DOMAIN t THEN <<t[f]>> ELSE Null

\* mutant of TokenCheck: the domain the token was issued for is not compared
TokenCheckAnyDomain(token, key, domain) ==
  IF token = Null THEN "none"
  ELSE IF JwtVerify(token[1]) # "ok" THEN "invalid_token"
  ELSE IF ClaimOf(token[1], "licenseKey") # <<key>> THEN "token_mismatch"
  ELSE "none"

\* lines 622-632: if (token) { try { jwt.verify; compare domain and licenseKey }
\* catch { invalid_token } } - one answer for every error jwt.verify throws
TokenCheck(token, key, domain) ==
  IF token = Null THEN "none"
  ELSE IF JwtVerify(token[1]) # "ok" THEN "invalid_token"
  ELSE IF ClaimOf(token[1], "domain") # <<domain>> \/ ClaimOf(token[1], "licenseKey") # <<key>>
  THEN "token_mismatch"
  ELSE "none"

\* mutant of ValidateFull: a token that verifies and matches is taken as proof
\* of activation
ValidateFullTokenSuffices(key, domain, token, productSlug) ==
  LET ls == GetLicenseByKey(key)
      license == CHOOSE l \in ls : TRUE
  IN IF ls = {} THEN Err("invalid_key")
     ELSE IF /\ productSlug # Null /\ license.productId # Null
             /\ \E p \in ProductOf(license) : <<p.slug>> # productSlug
     THEN Err("product_mismatch")
     ELSE IF IsExpired(license) THEN Err("expired")
     ELSE IF token # Null /\ TokenCheck(token, key, domain) = "none" THEN Ok(FALSE, Null)
     ELSE IF ~\E a \in GetActiveActivations(license.id) : a.domain = domain
     THEN Err("not_activated")
     ELSE IF TokenCheck(token, key, domain) # "none"
     THEN Err(TokenCheck(token, key, domain))
     ELSE Ok(FALSE, Null)

\* mutant of ValidateFull: the expiry check ahead of the product check
ValidateFullExpiryFirst(key, domain, token, productSlug) ==
  LET ls == GetLicenseByKey(key)
      license == CHOOSE l \in ls : TRUE
  IN IF ls = {} THEN Err("invalid_key")
     ELSE IF IsExpired(license) THEN Err("expired")
     ELSE IF /\ productSlug # Null /\ license.productId # Null
             /\ \E p \in ProductOf(license) : <<p.slug>> # productSlug
     THEN Err("product_mismatch")
     ELSE IF ~\E a \in GetActiveActivations(license.id) : a.domain = domain
     THEN Err("not_activated")
     ELSE IF TokenCheck(token, key, domain) # "none"
     THEN Err(TokenCheck(token, key, domain))
     ELSE Ok(FALSE, Null)

\* lines 585-632: validateLicense(licenseKey, domain, token, productSlug) up to
\* its verdict; token and productSlug are Null when not given
ValidateFull(key, domain, token, productSlug) ==
  LET ls == GetLicenseByKey(key)
      license == CHOOSE l \in ls : TRUE
  IN IF ls = {} THEN Err("invalid_key")
     ELSE IF /\ productSlug # Null /\ license.productId # Null
             /\ \E p \in ProductOf(license) : <<p.slug>> # productSlug
     THEN Err("product_mismatch")
     ELSE IF IsExpired(license) THEN Err("expired")
     ELSE IF ~\E a \in GetActiveActivations(license.id) : a.domain = domain
     THEN Err("not_activated")
     ELSE IF TokenCheck(token, key, domain) # "none"
     THEN Err(TokenCheck(token, key, domain))
     ELSE Ok(FALSE, Null)

\* lines 634-647: the product the valid answer names
ValidateProductInfo(key) ==
  LET ls == GetLicenseByKey(key)
      ps == IF ls = {} THEN {} ELSE ProductOf(CHOOSE l \in ls : TRUE)
  IN IF ps = {} THEN Null
     ELSE LET p == CHOOSE q \in ps : TRUE
          IN <<[slug |-> p.slug, latestVersion |-> p.currentVersion]>>

\* validateLicense(licenseKey, domain): token = null, productSlug = null
ValidateResult(key, domain) == ValidateFull(key, domain, Null, Null)

ValidateLicense(key, domain) ==
  /\ MayCall
  /\ last' = Call("validate", key, domain, ValidateResult(key, domain))
  /\ UNCHANGED <<store, now, reqs, hist, aux>>

\* mutant of HeartbeatRows: the statement also clears is_active of the row
HeartbeatRowsDeactivating(licenseId, domain, info) ==
  {IF a.licenseId = licenseId /\ a.domain = domain /\ a.isActive
   THEN [Touch(a, info) EXCEPT !.isActive = FALSE] ELSE a : a \in activations}

\* UPDATE activations SET last_heartbeat = ..., ... WHERE license_id = ? AND domain = ? AND is_active = 1
HeartbeatRows(licenseId, domain, info) ==
  {IF a.licenseId = licenseId /\ a.domain = domain /\ a.isActive
   THEN Touch(a, info) ELSE a : a \in activations}

\* mutant of HeartbeatValid: the expiry is not looked at
HeartbeatValidAlways(license) == TRUE

\* lines 693-698: valid: !isExpired, with
\* isExpired = license.expires_at && new Date(license.expires_at) < new Date()
HeartbeatValid(license) == ~IsExpired(license)

\* lines 668-704
RecordHeartbeat(key, domain, info) ==
  /\ MayCall
  /\ LET ls == GetLicenseByKey(key)
         license == CHOOSE l \in ls : TRUE
         changes == {a \in GetActiveActivations(license.id) : a.domain = domain}
     IN IF ls = {}
        THEN /\ last' = Call("heartbeat", key, domain, Err("invalid_key"))
             /\ UNCHANGED activations
        ELSE IF changes = {}
        THEN /\ last' = Call("heartbeat", key, domain, Err("not_activated"))
             /\ UNCHANGED activations
        ELSE /\ activations' = HeartbeatRows(license.id, domain, info)
             /\ last' = Call("heartbeat", key, domain,
                             Ok(FALSE, Null) @@ [valid |-> HeartbeatValid(license)])
  /\ UNCHANGED <<licenses, auditLog, nextLicenseId, nextActivationId, now, reqs, hist, aux>>

(***************************************************************************)
(* Spec: one server process.  better-sqlite3 is synchronous and no handler *)
(* awaits, so each call runs to completion before the next one starts.     *)
(***************************************************************************)
\* lines 456-546 as one call
ActivateResult(key, domain, info) ==
  LET ls == GetLicenseByKey(key)
      license == CHOOSE l \in ls : TRUE
      same == [activations |-> activations, auditLog |-> auditLog,
               nextActivationId |-> nextActivationId]
  IN IF ls = {} THEN same @@ [result |-> Err("invalid_key")]
     ELSE IF IsExpired(license) THEN same @@ [result |-> Err("expired")]
     ELSE ActivateWrite(license, GetActiveActivations(license.id), domain, info)

ActivateLicense(key, domain, info) ==
  /\ MayCall
  /\ LET w == ActivateResult(key, domain, info)
     IN /\ activations' = w.activations
        /\ auditLog' = w.auditLog
        /\ nextActivationId' = w.nextActivationId
        /\ last' = Call("activate", key, domain, w.result)
  /\ UNCHANGED <<licenses, nextLicenseId, now, reqs, hist, aux>>

Next ==
  \/ \E key \in Keys, m \in MaxActivationsChoices, e \in ExpiresAtChoices :
        CreateLicense(key, m, e)
  \/ \E key \in Keys, d \in Domains, info \in SiteInfos : ActivateLicense(key, d, info)
  \/ \E key \in Keys, d \in Domains : DeactivateLicense(key, d)
  \/ \E key \in Keys, d \in Domains : ValidateLicense(key, d)
  \/ \E key \in Keys, d \in Domains, info \in SiteInfos : RecordHeartbeat(key, d, info)
  \/ Tick

Spec == Init /\ [][Next]_vars

(***************************************************************************)
(* SeqSpec: the calls of one process on licenses created beforehand, with  *)
(* every activate and deactivate call and its outcome recorded in hist     *)
(***************************************************************************)
Entry(op, key, domain, result) ==
  [op |-> op, key |-> key, domain |-> domain, result |-> result]

\* the site information the recorded calls carry
SeqInfo == [wpVersion |-> <<"6.4">>, pluginVersion |-> <<"1.0.0">>]

\* createLicense for the license the recorded calls are about
SeqCreate(key, maxActivations, expiresAt) ==
  /\ hist = <<>>
  /\ licenses = {}
  /\ \A r \in Reqs : reqs[r].pc = "idle"
  /\ LET w == CreateWrite(key, maxActivations, expiresAt)
     IN /\ ~w.result.thrown
        /\ licenses' = w.licenses
        /\ nextLicenseId' = w.nextLicenseId
        /\ auditLog' = w.auditLog
  /\ UNCHANGED <<activations, nextActivationId, now, reqs, last, hist, aux>>

SeqActivate(key, domain, info) ==
  /\ Len(hist) < MaxCalls
  /\ LET w == ActivateResult(key, domain, info)
     IN /\ activations' = w.activations
        /\ auditLog' = w.auditLog
        /\ nextActivationId' = w.nextActivationId
        /\ hist' = Append(hist, Entry("activate", key, domain, w.result))
  /\ UNCHANGED <<licenses, nextLicenseId, now, reqs, last, aux>>

SeqDeactivate(key, domain) ==
  /\ Len(hist) < MaxCalls
  /\ LET w == DeactivateWrite(key, domain)
     IN /\ activations' = w.activations
        /\ auditLog' = w.auditLog
        /\ hist' = Append(hist, Entry("deactivate", key, domain, w.result))
  /\ UNCHANGED <<licenses, nextLicenseId, nextActivationId, now, reqs, last, aux>>

SeqNext ==
  \/ \E key \in Keys, m \in MaxActivationsChoices : SeqCreate(key, m, Null)
  \/ \E key \in Keys, d \in Domains : SeqActivate(key, d, SeqInfo)
  \/ \E key \in Keys, d \in Domains : SeqDeactivate(key, d)

SeqSpec == Init /\ [][SeqNext]_vars

(***************************************************************************)
(* WorkersSpec: request workers sharing the database file.  Each SQL       *)
(* statement is its own transaction, so the three store steps of an        *)
(* activateLicense request interleave with the steps of the other worker.  *)
(* Each worker serves one request, on a license created beforehand.        *)
(***************************************************************************)
WorkersNext ==
  \/ \E key \in Keys, m \in MaxActivationsChoices, e \in ExpiresAtChoices :
        SeqCreate(key, m, e)
  \/ \E r \in Reqs, key \in Keys, d \in Domains, info \in SiteInfos :
        ActBegin(r, key, d, info)
  \/ \E r \in Reqs : ActLoad(r)
  \/ \E r \in Reqs : ActWrite(r)

WorkersSpec == Init /\ [][WorkersNext]_vars

(***************************************************************************)
(* HTTP layer: the status code of the license routes' answers              *)
(***************************************************************************)
\* the license routes that end in the engine call op
EndpointsOf(op) ==
  CASE op = "activate" -> {"POST /activate"}
    [] op = "deactivate" -> {"POST /deactivate"}
    [] op = "validate" -> {"POST /validate", "GET /status"}
    [] op = "heartbeat" -> {"POST /heartbeat"}
    [] OTHER -> {}

\* errorHandler: the status for an exception that left the handler
ErrorHandlerStatus(code) == IF code = "SQLITE_CONSTRAINT" THEN 409 ELSE 500

\* res.status(...) of each route, from the engine's result
RouteStatus(endpoint, result) ==
  IF result.thrown THEN ErrorHandlerStatus(result.error)
  ELSE IF endpoint \in {"POST /activate", "POST /deactivate"}
  THEN (IF result.ok THEN 200 ELSE IF result.error = "invalid_key" THEN 404 ELSE 400)
  ELSE \* result.valid ? 200 : 400 and result.success ? 200 : 400
       (IF result.ok THEN 200 ELSE 400)

(***************************************************************************)
(* AdminSpec: one process serving the plugin's calls (activate, deactivate, *)
(* validate with the token the activation returned) and the admin's         *)
(* license routes (create, update, delete) on one license at a time         *)
(***************************************************************************)
\* the domains of the sites in these runs: a production and a development one
SiteDomains == { <<"example", "com">>, <<"site", "local">> }

\* mutant of CascadeDelete: the foreign key not enforced
CascadeOff(licenseId) == activations

\* FOREIGN KEY (license_id) REFERENCES licenses(id) ON DELETE CASCADE.
\* better-sqlite3 builds SQLite with foreign keys enforced by default, so the
\* constraint acts without a PRAGMA in getDb.
CascadeDelete(licenseId) == {a \in activations : a.licenseId # licenseId}

\* mutant of AuditAfterDelete: audit_log.license_id as a foreign key with
\* ON DELETE CASCADE
AuditCascade(licenseId) == SelectSeq(auditLog, LAMBDA e : e.licenseId # licenseId)

\* audit_log.license_id is a plain INTEGER column, no foreign key: deleting the
\* license leaves its audit entries in place
AuditAfterDelete(licenseId) == auditLog

\* DELETE /licenses/:key
AdminDeleteWrite(key) ==
  LET ls == GetLicenseByKey(key)
  IN IF ls = {}
     THEN [licenses |-> licenses, activations |-> activations, auditLog |-> auditLog,
           result |-> Err("License not found")]
     ELSE [licenses |-> licenses \ ls,
           activations |-> CascadeDelete((CHOOSE l \in ls : TRUE).id),
           auditLog |-> AuditAfterDelete((CHOOSE l \in ls : TRUE).id),
           result |-> Ok(FALSE, Null)]

AdminDelete(key) ==
  /\ MayCall
  /\ LET w == AdminDeleteWrite(key)
     IN /\ licenses' = w.licenses
        /\ activations' = w.activations
        /\ auditLog' = w.auditLog
        /\ last' = Call("delete", key, Null, w.result)
        /\ hist' = Append(hist, Entry("delete", key, Null, w.result))
  /\ UNCHANGED <<nextLicenseId, nextActivationId, now, reqs, aux>>

\* request bodies of PATCH /licenses/:key.  max_activations: Null when absent;
\* expires_at: <<>> when absent, <<Null>> for null, <<e>> for a date e
UpdateBodies ==
  { [maxActivations |-> Null, expiresAt |-> <<Null>>],
    [maxActivations |-> Null, expiresAt |-> << <<MaxTime>> >>],
    [maxActivations |-> <<1>>, expiresAt |-> <<>>] }

\* PATCH /licenses/:key
AdminUpdateWrite(key, body) ==
  LET ls == GetLicenseByKey(key)
      license == CHOOSE l \in ls : TRUE
      updated == [license EXCEPT
                    !.maxActivations = IF body.maxActivations # Null /\ body.maxActivations[1] # 0
                                       THEN body.maxActivations[1] ELSE @,
                    !.expiresAt = IF body.expiresAt # <<>> THEN body.expiresAt[1] ELSE @]
  IN IF ls = {} THEN [licenses |-> licenses, result |-> Err("License not found")]
     ELSE IF (body.maxActivations = Null \/ body.maxActivations[1] = 0) /\ body.expiresAt = <<>>
     THEN [licenses |-> licenses, result |-> Err("No fields to update")]
     ELSE [licenses |-> (licenses \ ls) \cup {updated}, result |-> Ok(FALSE, Null)]

AdminUpdate(key, body) ==
  /\ MayCall
  /\ LET w == AdminUpdateWrite(key, body)
     IN /\ licenses' = w.licenses
        /\ last' = Call("update", key, Null, w.result)
  /\ UNCHANGED <<activations, auditLog, nextLicenseId, nextActivationId, now, reqs, hist, aux>>

\* POST /licenses: createLicense({maxActivations: max_activations || 1, ...}),
\* here while no license is stored
AdminCreate(key, maxActivations, expiresAt) ==
  /\ licenses = {}
  /\ LET w == CreateWrite(key, IF maxActivations = 0 THEN 1 ELSE maxActivations, expiresAt)
     IN /\ licenses' = w.licenses
        /\ nextLicenseId' = w.nextLicenseId
        /\ auditLog' = w.auditLog
  /\ UNCHANGED <<activations, nextActivationId, now, reqs, last, hist, aux>>

\* activateLicense as one call; the caller keeps the token of a success answer
ActivateAndIssue(key, domain, info) ==
  /\ MayCall
  /\ LET w == ActivateResult(key, domain, info)
     IN /\ activations' = w.activations
        /\ auditLog' = w.auditLog
        /\ nextActivationId' = w.nextActivationId
        /\ last' = Call("activate", key, domain, w.result)
        /\ issued' = IF w.result.ok
                      THEN issued \cup {GenerateToken(CHOOSE l \in GetLicenseByKey(key) : TRUE, domain)}
                      ELSE issued
  /\ UNCHANGED <<licenses, nextLicenseId, now, reqs, hist, products, lastValidate, http, classify>>

\* the tokens a site presents: none, a handed-out one, a string that is no token
TokensHeld == {Null} \cup {<<t>> : t \in issued} \cup {<<Garbage>>}

\* the tokens any caller can present: those, and a forgery of a handed-out one
TokensOffered == TokensHeld \cup {<<Forged(t)>> : t \in issued}

\* validateLicense(licenseKey, domain, token, productSlug) as one call
ValidateWith(key, domain, token, productSlug) ==
  /\ MayCall
  /\ LET result == ValidateFull(key, domain, token, productSlug)
     IN /\ last' = Call("validate", key, domain, result)
        /\ lastValidate' = [token |-> token, productSlug |-> productSlug,
                            product |-> IF result.ok THEN ValidateProductInfo(key) ELSE Null]
  /\ UNCHANGED <<store, now, reqs, hist, products, issued, http, classify>>

AdminNext ==
  \/ \E key \in Keys, m \in MaxActivationsChoices, e \in ExpiresAtChoices :
        AdminCreate(key, m, e)
  \/ \E key \in Keys, d \in SiteDomains : ActivateAndIssue(key, d, SeqInfo)
  \/ \E key \in Keys, d \in SiteDomains : DeactivateLicense(key, d)
  \/ \E key \in Keys, d \in SiteDomains, t \in TokensOffered : ValidateWith(key, d, t, Null)
  \/ \E key \in Keys, d \in SiteDomains : RecordHeartbeat(key, d, SeqInfo)
  \/ \E key \in Keys : AdminDelete(key)
  \/ \E key \in Keys, body \in UpdateBodies : AdminUpdate(key, body)
  \/ Tick

AdminSpec == Init /\ [][AdminNext]_vars

(***************************************************************************)
(* ProductSpec: products, a license bound to one of them (or to none), and  *)
(* the calls that read the binding                                          *)
(***************************************************************************)
\* INSERT INTO products (slug, ...): slug TEXT UNIQUE NOT NULL; ids are
\* AUTOINCREMENT and no product row is ever deleted
CreateProductWrite(slug) ==
  IF \E p \in products : p.slug = slug
  THEN [products |-> products, result |-> Thrown("SQLITE_CONSTRAINT_UNIQUE")]
  ELSE [products |-> products \cup
          {[id |-> Cardinality(products) + 1, slug |-> slug,
            currentVersion |-> DefaultVersion, isActive |-> TRUE]},
        result |-> Ok(FALSE, Null)]

\* POST /products: a slug in use is answered 409 before createProduct is called;
\* here the one product of the run, made before any license exists
CreateProduct(slug) ==
  /\ licenses = {} /\ products = {}
  /\ ~\E p \in products : p.slug = slug
  /\ products' = CreateProductWrite(slug).products
  /\ UNCHANGED <<store, now, reqs, last, hist, issued, lastValidate, http, classify>>

\* createLicense({productId, maxActivations: 1, expiresAt, ...}) for a stored
\* product, as the Stripe webhook calls it with the id of the product it found,
\* or for none; one license at a time
CreateBound(productId, key, expiresAt) ==
  /\ licenses = {}
  /\ LET w == CreateWriteFor(productId, key, 1, expiresAt)
     IN /\ licenses' = w.licenses
        /\ nextLicenseId' = w.nextLicenseId
        /\ auditLog' = w.auditLog
  /\ UNCHANGED <<activations, nextActivationId, now, reqs, last, hist, aux>>

\* the updates argument of updateProduct; Null: the field is undefined
ProductUpdates ==
  { [currentVersion |-> <<NewVersion>>, isActive |-> Null],
    [currentVersion |-> Null, isActive |-> <<TRUE>>],
    [currentVersion |-> Null, isActive |-> Null] }

\* updateProduct(id, updates).  The statement ends in updated_at = datetime("now"):
\* the double-quoted "now" is a string literal only in an SQLite build that
\* keeps the legacy double-quoted strings (quoted); a build without them
\* (SQLITE_DQS=0) rejects the statement when it is prepared.
UpdateProductWrite(id, updates, quoted) ==
  IF updates.currentVersion = Null /\ updates.isActive = Null
  THEN [products |-> products, result |-> Ok(FALSE, Null)]
  ELSE IF ~quoted
  THEN [products |-> products, result |-> Thrown("SQLITE_ERROR")]
  ELSE [products |->
          {IF p.id = id
           THEN [p EXCEPT !.currentVersion = IF updates.currentVersion # Null
                                             THEN updates.currentVersion[1] ELSE @,
                          !.isActive = IF updates.isActive # Null
                                       THEN updates.isActive[1] ELSE @]
           ELSE p : p \in products},
        result |-> Ok(FALSE, Null)]

\* PATCH /products/:id for a stored product
UpdateProduct(id, updates, quoted) ==
  /\ MayCall
  /\ \E p \in products : p.id = id
  /\ LET w == UpdateProductWrite(id, updates, quoted)
     IN /\ products' = w.products
        /\ last' = Call("updateProduct", "", Null, w.result)
  /\ UNCHANGED <<store, now, reqs, hist, issued, lastValidate, http, classify>>

\* DELETE /products/:id: deleteProduct(id) = updateProduct(id, { isActive: false })
DeleteProduct(id, quoted) ==
  /\ MayCall
  /\ \E p \in products : p.id = id
  /\ LET w == UpdateProductWrite(id, [currentVersion |-> Null, isActive |-> <<FALSE>>], quoted)
     IN /\ products' = w.products
        /\ last' = Call("deleteProduct", "", Null, w.result)
  /\ UNCHANGED <<store, now, reqs, hist, issued, lastValidate, http, classify>>

ProductNext ==
  \/ \E slug \in Slugs : CreateProduct(slug)
  \/ \E pid \in {Null} \cup {<<p.id>> : p \in products}, key \in Keys,
        e \in ExpiresAtChoices : CreateBound(pid, key, e)
  \/ \E key \in Keys, d \in SiteDomains : ActivateAndIssue(key, d, SeqInfo)
  \/ \E key \in Keys, d \in SiteDomains, t \in TokensHeld,
        slug \in {Null} \cup {<<g>> : g \in Slugs} : ValidateWith(key, d, t, slug)
  \/ \E p \in products, u \in ProductUpdates, quoted \in BOOLEAN : UpdateProduct(p.id, u, quoted)
  \/ \E p \in products, quoted \in BOOLEAN : DeleteProduct(p.id, quoted)
  \/ Tick

ProductSpec == Init /\ [][ProductNext]_vars

(***************************************************************************)
(* AuditSpec: the calls that write an audit entry, when the INSERT into     *)
(* audit_log can fail (disk full, database locked by another process).      *)
(* logAudit has no try/catch and the engine opens no transaction: the       *)
(* statements that ran before logAudit stay committed and the exception     *)
(* leaves the engine function.                                              *)
(***************************************************************************)
\* w: the writes and the result of a call whose logAudit succeeds; fails: the
\* INSERT of logAudit throws
WithAudit(w, fails) ==
  IF fails /\ w.auditLog # auditLog
  THEN [w EXCEPT !.auditLog = auditLog, !.result = Thrown("SQLITE_ERROR")]
  ELSE w

\* a logAudit failure during this call, recorded
AuditTrail(w, fails, key, domain) ==
  IF fails /\ w.auditLog # auditLog
  THEN Append(hist, Entry("logAudit", key, domain, Thrown("SQLITE_ERROR")))
  ELSE hist

CreateLicenseAudited(key, maxActivations, expiresAt, fails) ==
  /\ MayCall
  /\ LET c == CreateWrite(key, maxActivations, expiresAt)
         w == WithAudit(c, fails)
     IN /\ licenses' = w.licenses
        /\ nextLicenseId' = w.nextLicenseId
        /\ auditLog' = w.auditLog
        /\ last' = Call("create", key, Null, w.result)
        /\ hist' = AuditTrail(c, fails, key, Null)
  /\ UNCHANGED <<activations, nextActivationId, now, reqs, aux>>

ActivateLicenseAudited(key, domain, info, fails) ==
  /\ MayCall
  /\ LET c == ActivateResult(key, domain, info)
         w == WithAudit(c, fails)
     IN /\ activations' = w.activations
        /\ auditLog' = w.auditLog
        /\ nextActivationId' = w.nextActivationId
        /\ last' = Call("activate", key, domain, w.result)
        /\ hist' = AuditTrail(c, fails, key, domain)
  /\ UNCHANGED <<licenses, nextLicenseId, now, reqs, aux>>

DeactivateLicenseAudited(key, domain, fails) ==
  /\ MayCall
  /\ LET c == DeactivateWrite(key, domain)
         w == WithAudit(c, fails)
     IN /\ activations' = w.activations
        /\ auditLog' = w.auditLog
        /\ last' = Call("deactivate", key, domain, w.result)
        /\ hist' = AuditTrail(c, fails, key, domain)
  /\ UNCHANGED <<licenses, nextLicenseId, nextActivationId, now, reqs, aux>>

AuditNext ==
  \/ \E key \in Keys, m \in MaxActivationsChoices, e \in ExpiresAtChoices, fails \in BOOLEAN :
        CreateLicenseAudited(key, m, e, fails)
  \/ \E key \in Keys, d \in SiteDomains, fails \in BOOLEAN :
        ActivateLicenseAudited(key, d, SeqInfo, fails)
  \/ \E key \in Keys, d \in SiteDomains, fails \in BOOLEAN :
        DeactivateLicenseAudited(key, d, fails)

AuditSpec == Init /\ [][AuditNext]_vars

(***************************************************************************)
(* RouteSpec: one process answering HTTP requests.  A request runs through  *)
(* the middleware and the routers in the order index.js mounts them; the    *)
(* chain is synchronous, so requests are served one after the other.        *)
(***************************************************************************)
\* process.env.ADMIN_API_KEY as the deployment sets it
AdminApiKey == "admin-key"

\* req.headers.authorization: absent, the admin key as a bearer token, another
AuthorizationHeaders ==
  {Null, <<[scheme |-> "Bearer", token |-> AdminApiKey]>>, <<[scheme |-> "Bearer", token |-> "wrong"]>>}

\* req.headers['x-api-key']: absent, the admin key, another
XApiKeyHeaders == {Null, <<AdminApiKey>>, <<"wrong">>}

\* product_slug (slug for the product endpoint) of a request body; Null: not sent
BodySlugs == {Null} \cup {<<g>> : g \in Slugs}

\* POST /api/v1/license/validate {license_key, domain, token, product_slug}
ValidateRequests ==
  { [NoRequest EXCEPT !.path = "POST /api/v1/license/validate",
                      !.key = k, !.domain = d, !.token = t, !.productSlug = g] :
      k \in Keys, d \in {<<"example", "com">>}, t \in {Null} \cup {<<i>> : i \in issued},
      g \in BodySlugs }

\* POST /api/v1/admin/licenses {email, product_slug}; key: what
\* generateLicenseKey() will return
AdminLicenseRequests ==
  { [NoRequest EXCEPT !.path = "POST /api/v1/admin/licenses", !.authorization = a,
                      !.key = k, !.productSlug = g] :
      a \in AuthorizationHeaders, k \in Keys, g \in BodySlugs }

\* POST /api/v1/admin/products {slug, name}
ProductRequests ==
  { [NoRequest EXCEPT !.path = "POST /api/v1/admin/products", !.authorization = a,
                      !.xApiKey = x, !.productSlug = <<g>>] :
      a \in AuthorizationHeaders, x \in XApiKeyHeaders, g \in Slugs }

\* no request is inside the chain
Quiet == http.stage \in {"none", "answered"}

\* res.status(status).json(...) by the middleware or handler the request is at
Answered(status) ==
  [http EXCEPT !.stage = "answered", !.by = http.stage, !.status = <<status>>]

\* the request enters app: helmet, cors, body parsing and requestLogger pass it on
Receive(req) ==
  /\ MayCall
  /\ Quiet
  /\ http' = [req EXCEPT !.stage = "generalLimiter"]
  /\ UNCHANGED <<store, now, reqs, last, hist, products, issued, lastValidate, classify>>

\* app.use(generalLimiter): 429 for a client over its limit, next() otherwise;
\* then the first router mounted on a prefix of the path
GeneralLimiter(over) ==
  /\ http.stage = "generalLimiter"
  /\ IF over
     THEN /\ http' = Answered(429)
          /\ last' = Call("request", http.key, http.domain, Err("rate_limited"))
     ELSE /\ http' = [http EXCEPT !.stage =
                        IF http.path = "POST /api/v1/license/validate"
                        THEN "licenseRoutes" ELSE "adminRoutes"]
          /\ UNCHANGED last
  /\ UNCHANGED <<store, now, reqs, hist, products, issued, lastValidate, classify>>

\* app.use('/api/v1/admin', adminRoutes): router.use(requireAdmin) of the admin
\* router runs for every path under /api/v1/admin.  After next(), the admin
\* router's own routes (/licenses, /stats) are tried; for a path under
\* /api/v1/admin/products none matches and the request goes on to the router
\* mounted next.
AdminRequireAdmin ==
  /\ http.stage = "adminRoutes"
  /\ IF http.authorization = Null \/ http.authorization[1].scheme # "Bearer"
     THEN /\ http' = Answered(401)
          /\ last' = Call("request", http.key, http.domain, Err("unauthorized"))
     ELSE IF http.authorization[1].token # AdminApiKey
     THEN /\ http' = Answered(403)
          /\ last' = Call("request", http.key, http.domain, Err("forbidden"))
     ELSE /\ http' = [http EXCEPT !.stage =
                        IF http.path = "POST /api/v1/admin/licenses"
                        THEN "POST /licenses" ELSE "productRoutes"]
          /\ UNCHANGED last
  /\ UNCHANGED <<store, now, reqs, hist, products, issued, lastValidate, classify>>

\* app.use('/api/v1/admin/products', productRoutes): router.use(requireAdmin) of
\* the product router
ProductRequireAdmin ==
  /\ http.stage = "productRoutes"
  /\ IF http.xApiKey = Null \/ http.xApiKey[1] # AdminApiKey
     THEN /\ http' = Answered(401)
          /\ last' = Call("request", http.key, http.domain, Err("unauthorized"))
     ELSE /\ http' = [http EXCEPT !.stage = "POST /products"]
          /\ UNCHANGED last
  /\ UNCHANGED <<store, now, reqs, hist, products, issued, lastValidate, classify>>

\* router.post('/validate'): license_key, domain and token are read from the
\* body and handed to validateLicense; product_slug is not read
PostValidate ==
  /\ http.stage = "licenseRoutes"
  /\ LET result == ValidateFull(http.key, http.domain, http.token, Null)
     IN /\ last' = Call("validate", http.key, http.domain, result)
        /\ lastValidate' = [token |-> http.token, productSlug |-> Null,
                            product |-> IF result.ok THEN ValidateProductInfo(http.key) ELSE Null]
        /\ http' = Answered(RouteStatus("POST /validate", result))
  /\ UNCHANGED <<store, now, reqs, hist, products, issued, classify>>

\* router.post('/licenses') of the admin router: email, plan, max_activations,
\* expires_at and metadata are read from the body (here max_activations and
\* expires_at are not sent); product_slug is not read and createLicense gets
\* no productId.  An exception of createLicense is caught and answered 500.
PostAdminLicenses ==
  /\ http.stage = "POST /licenses"
  /\ LET w == CreateWrite(http.key, 1, Null)
     IN /\ licenses' = w.licenses
        /\ nextLicenseId' = w.nextLicenseId
        /\ auditLog' = w.auditLog
        /\ last' = Call("create", http.key, Null, w.result)
        /\ http' = Answered(IF w.result.thrown THEN 500 ELSE 201)
  /\ UNCHANGED <<activations, nextActivationId, now, reqs, hist, products, issued,
                 lastValidate, classify>>

\* router.post('/') of the product router: 409 for a slug in use, else createProduct
PostProducts ==
  /\ http.stage = "POST /products"
  /\ LET slug == http.productSlug[1]
         inUse == \E p \in products : p.slug = slug
     IN /\ products' = IF inUse THEN products ELSE CreateProductWrite(slug).products
        /\ last' = Call("createProduct", "", Null,
                        IF inUse THEN Err("duplicate_slug") ELSE Ok(FALSE, Null))
        /\ http' = Answered(IF inUse THEN 409 ELSE 201)
  /\ UNCHANGED <<store, now, reqs, hist, issued, lastValidate, classify>>

RouteNext ==
  \/ \E slug \in Slugs : Quiet /\ CreateProduct(slug)
  \/ \E pid \in {<<p.id>> : p \in products}, key \in Keys :
        Quiet /\ CreateBound(pid, key, Null)
  \/ \E key \in Keys : Quiet /\ ActivateAndIssue(key, <<"example", "com">>, SeqInfo)
  \/ \E req \in ValidateRequests \cup AdminLicenseRequests \cup ProductRequests : Receive(req)
  \/ \E over \in BOOLEAN : GeneralLimiter(over)
  \/ AdminRequireAdmin
  \/ ProductRequireAdmin
  \/ PostValidate
  \/ PostAdminLicenses
  \/ PostProducts

RouteSpec == Init /\ [][RouteNext]_vars

(***************************************************************************)
(* ClassifierSpec: isDevEnvironment applied to one domain                   *)
(***************************************************************************)
\* labels the classifier's inputs are made of
ClassifierLabels ==
  {"localhost", "local", "10", "192", "168", "dev", "staging", "lndo",
   "example", "com", "shop", "STAGING"}

\* the domain argument: every domain of up to MaxLabels of these labels, the
\* empty string, site.local, and the addresses 127.0.0.1 and 10.0.0.5
ClassifierInputs ==
  UNION {[1..k -> ClassifierLabels] : k \in 1..MaxLabels}
    \cup {<<"">>, <<"site", "local">>, <<"127", "0", "0", "1">>, <<"10", "0", "0", "5">>}

ClassifierInit ==
  /\ licenses = {} /\ activations = {} /\ auditLog = <<>>
  /\ nextLicenseId = 1 /\ nextActivationId = 1 /\ now = 0
  /\ reqs = [r \in Reqs |-> IdleReq] /\ last = NoCall /\ hist = <<>>
  /\ products = {} /\ issued = {} /\ lastValidate = NoValidate /\ http = NoRequest
  /\ \E d \in ClassifierInputs : classify = [domain |-> d, answer |-> "none"]

\* the call returns: true is development, false is production
Classify ==
  /\ classify.answer = "none"
  /\ classify' = [classify EXCEPT !.answer =
                    IF IsDevEnvironment(classify.domain) THEN "development" ELSE "production"]
  /\ UNCHANGED <<store, now, reqs, last, hist, products, issued, lastValidate, http>>

ClassifierSpec == ClassifierInit /\ [][Classify]_vars

(***************************************************************************)
(* PortalSpec: the customer portal (magic-link login, license list,         *)
(* download link) beside the plugin's activate and validate calls; the      *)
(* three kinds of token are signed with the same JWT_SECRET                 *)
(***************************************************************************)
\* email addresses: of a customer, the same in another case, of a stranger
Emails == {"customer@example.com", "Customer@Example.com", "nobody@example.com"}

\* req.body.email of POST /login: absent, not an address, an address
LoginEmails == {Null, <<"not-an-email">>} \cup {<<e>> : e \in Emails}

\* email.toLowerCase()
LowerEmail(e) == IF e = "Customer@Example.com" THEN "customer@example.com" ELSE e

\* emailRegex.test(email)
WellFormed(e) == e # "not-an-email"

\* expiresIn: '30m' and expiresIn: '1h' on the model's clock
MagicLinkTtl == 1

DownloadTtl == 1

\* jwt.sign({ email, type: 'portal_access' }, JWT_SECRET, { expiresIn: '30m' })
GenerateMagicToken(email) ==
  [email |-> email, type |-> "portal_access", exp |-> now + MagicLinkTtl, signedBy |-> "server"]

\* jwt.sign({ email, product, type: 'download' }, JWT_SECRET, { expiresIn: '1h' })
DownloadToken(email, slug) ==
  [email |-> email, product |-> slug, type |-> "download", exp |-> now + DownloadTtl,
   signedBy |-> "server"]

\* mutant of VerifyMagicToken: the type claim is not looked at
VerifyMagicTokenAnyType(t) ==
  IF JwtVerify(t) # "ok" THEN Null ELSE <<t>>

\* verifyMagicToken(token): the decoded payload, or null
VerifyMagicToken(t) ==
  IF JwtVerify(t) # "ok" THEN Null
  ELSE IF ClaimOf(t, "type") # <<"portal_access">> THEN Null
  ELSE <<t>>

\* mutant of LoginResponse: an email without a license is told so
LoginResponseTelling(email, found, mailFails) ==
  IF email = Null THEN [status |-> 400, body |-> "missing_email", link |-> Null]
  ELSE IF ~WellFormed(email[1]) THEN [status |-> 400, body |-> "invalid_email", link |-> Null]
  ELSE IF ~found THEN [status |-> 404, body |-> "no_license", link |-> Null]
  ELSE [status |-> 200,
        body |-> "If this email has associated licenses, you will receive a login link shortly.",
        link |-> <<GenerateMagicToken(LowerEmail(email[1]))>>]

\* POST /login after the rate limiter: the answer, and the magic link handed
\* to sendPortalMagicLink (Null: none).  found: a license with this email
\* exists; mailFails: sending fails, which is caught and logged
LoginResponse(email, found, mailFails) ==
  IF email = Null THEN [status |-> 400, body |-> "missing_email", link |-> Null]
  ELSE IF ~WellFormed(email[1]) THEN [status |-> 400, body |-> "invalid_email", link |-> Null]
  ELSE [status |-> 200,
        body |-> "If this email has associated licenses, you will receive a login link shortly.",
        link |-> IF found THEN <<GenerateMagicToken(LowerEmail(email[1]))>> ELSE Null]

\* the answer of a portal route, kept in http
PortalAnswer(route, email, token, status, body, link) ==
  [NoRequest EXCEPT !.path = route, !.token = token, !.stage = "answered", !.by = route,
                    !.status = <<status>>]
    @@ [email |-> email, body |-> body, link |-> link]

\* router.post('/login', generalLimiter, ...): SELECT id FROM licenses WHERE
\* email = ? with the lower-cased address; a link that was sent reaches the
\* customer
PostLogin(email, mailFails, over) ==
  /\ MayCall
  /\ LET found == email # Null /\ \E l \in licenses : l.email = LowerEmail(email[1])
         r == IF over THEN [status |-> 429, body |-> "rate_limited", link |-> Null]
              ELSE LoginResponse(email, found, mailFails)
     IN /\ http' = PortalAnswer(IF over THEN "generalLimiter" ELSE "POST /api/v1/customer/login",
                                email, Null, r.status, r.body, r.link)
        /\ issued' = IF r.link # Null /\ ~mailFails THEN issued \cup {r.link[1]} ELSE issued
        /\ last' = Call("login", "", Null, IF r.status = 200 THEN Ok(FALSE, Null) ELSE Err(r.body))
  /\ UNCHANGED <<store, now, reqs, hist, products, lastValidate, classify>>

\* router.get('/licenses'): the license list for the token's email
GetLicenses(token) ==
  /\ MayCall
  /\ LET decoded == IF token = Null THEN Null ELSE VerifyMagicToken(token[1])
         error == IF token = Null THEN "missing_token" ELSE "invalid_token"
     IN /\ http' = PortalAnswer("GET /api/v1/customer/licenses", Null, token,
                                IF decoded = Null THEN 401 ELSE 200,
                                IF decoded = Null THEN error ELSE "licenses", Null)
        /\ last' = Call("portal", "", Null, IF decoded = Null THEN Err(error) ELSE Ok(FALSE, Null))
  /\ UNCHANGED <<store, now, reqs, hist, products, issued, lastValidate, classify>>

\* router.get('/download'): a download token for a product the token's email
\* has a license for (the product has no download_url of its own)
GetDownload(token, product) ==
  /\ MayCall
  /\ LET decoded == IF token = Null THEN Null ELSE VerifyMagicToken(token[1])
         error == IF token = Null THEN "missing_token" ELSE "invalid_token"
         licensed == decoded # Null /\ \E l \in licenses : \E q \in products :
                       l.productId = <<q.id>> /\ l.email = decoded[1].email /\ q.slug = product
         link == IF licensed THEN <<DownloadToken(decoded[1].email, product)>> ELSE Null
     IN /\ http' = PortalAnswer("GET /api/v1/customer/download", Null, token,
                                IF decoded = Null THEN 401 ELSE IF licensed THEN 200 ELSE 403,
                                IF decoded = Null THEN error
                                ELSE IF licensed THEN "download" ELSE "no_license", link)
        /\ issued' = IF link # Null THEN issued \cup {link[1]} ELSE issued
        /\ last' = Call("download", "", Null,
                        IF decoded = Null THEN Err(error)
                        ELSE IF licensed THEN Ok(FALSE, Null) ELSE Err("no_license"))
  /\ UNCHANGED <<store, now, reqs, hist, products, lastValidate, classify>>

\* createLicense({productId, email, ...}) as the Stripe webhook calls it with
\* the customer's email; one license at a time
PortalCreate(productId, email, key) ==
  /\ licenses = {}
  /\ LET w == CreateWriteWith(productId, email, key, 1, Null)
     IN /\ licenses' = w.licenses
        /\ nextLicenseId' = w.nextLicenseId
        /\ auditLog' = w.auditLog
  /\ UNCHANGED <<activations, nextActivationId, now, reqs, last, hist, aux>>

PortalNext ==
  \/ \E slug \in Slugs : CreateProduct(slug)
  \/ \E pid \in {Null} \cup {<<q.id>> : q \in products}, email \in Emails, key \in Keys :
        PortalCreate(pid, email, key)
  \/ \E key \in Keys : ActivateAndIssue(key, <<"example", "com">>, SeqInfo)
  \/ \E email \in LoginEmails, mailFails \in BOOLEAN : PostLogin(email, mailFails, FALSE)
  \/ PostLogin(<<DefaultEmail>>, FALSE, TRUE)
  \/ \E t \in {Null} \cup {<<i>> : i \in issued} : GetLicenses(t)
  \/ \E t \in {Null} \cup {<<i>> : i \in issued}, slug \in Slugs : GetDownload(t, slug)
  \/ \E key \in Keys, t \in {Null} \cup {<<i>> : i \in issued} :
        ValidateWith(key, <<"example", "com">>, t, Null)
  \/ Tick

PortalSpec == Init /\ [][PortalNext]_vars

(***************************************************************************)
(* SeedSpec: the database as the seed script leaves it (its first two       *)
(* licenses: standard with one development activation, pro with two          *)
(* production activations), then activations, deactivations and admin        *)
(* updates of the cap                                                        *)
(***************************************************************************)
\* the seeded activations and the domains the sites of these runs use
SeedDomains ==
  { <<"test", "local">>, <<"site1", "example", "com">>, <<"site2", "example", "com">>,
    <<"site", "local">>, <<"localhost">> }

\* { email: 'test@example.com', plan: 'standard', maxActivations: 1 } and
\* { email: 'pro@example.com', plan: 'pro', maxActivations: 3 }
SeedLicenses ==
  { [id |-> 1, licenseKey |-> "TLAT-AAAA", productId |-> Null, email |-> "test@example.com",
     maxActivations |-> 1, expiresAt |-> Null],
    [id |-> 2, licenseKey |-> "TLAT-BBBB", productId |-> Null, email |-> "pro@example.com",
     maxActivations |-> 3, expiresAt |-> Null] }

\* the row activateLicense(key, domain, { wpVersion, pluginVersion }) made
SeedActivation(id, licenseId, domain, wpVersion, pluginVersion) ==
  [id |-> id, licenseId |-> licenseId, domain |-> domain,
   wpVersion |-> wpVersion, pluginVersion |-> pluginVersion,
   activatedAt |-> 0, lastHeartbeat |-> <<0>>, isActive |-> TRUE, deactivatedAt |-> Null]

SeedInit ==
  /\ licenses = SeedLicenses
  /\ activations =
       { SeedActivation(1, 1, <<"test", "local">>, <<"6.4">>, <<"1.0.0">>),
         SeedActivation(2, 2, <<"site1", "example", "com">>, <<"6.4">>, Null),
         SeedActivation(3, 2, <<"site2", "example", "com">>, <<"6.3">>, Null) }
  /\ auditLog =
       << [licenseId |-> 1, action |-> "created", domain |-> Null],
          [licenseId |-> 1, action |-> "activated", domain |-> <<"test", "local">>],
          [licenseId |-> 2, action |-> "created", domain |-> Null],
          [licenseId |-> 2, action |-> "activated", domain |-> <<"site1", "example", "com">>],
          [licenseId |-> 2, action |-> "activated", domain |-> <<"site2", "example", "com">>] >>
  /\ nextLicenseId = 3
  /\ nextActivationId = 4
  /\ now = 0
  /\ reqs = [r \in Reqs |-> IdleReq]
  /\ last = NoCall
  /\ hist = <<>>
  /\ products = {} /\ issued = {} /\ lastValidate = NoValidate
  /\ http = NoRequest /\ classify = NoClassify

\* PATCH /licenses/:key bodies with a positive max_activations
SeedBodies == { [maxActivations |-> <<m>>, expiresAt |-> <<>>] : m \in MaxActivationsChoices }

SeedNext ==
  \/ \E key \in Keys, d \in SeedDomains : ActivateLicense(key, d, SeqInfo)
  \/ \E key \in Keys, d \in SeedDomains : DeactivateLicense(key, d)
  \/ \E key \in Keys, body \in SeedBodies : AdminUpdate(key, body)

SeedSpec == SeedInit /\ [][SeedNext]_vars

(***************************************************************************)
(* CapSpec: the admin sets and changes the activation cap of a license,     *)
(* with any number the routes accept, and sites activate and deactivate     *)
(***************************************************************************)
\* max_activations values of a request body (JSON numbers; the routes check
\* no range)
CapChoices == {-1, 0, 1, 2}

\* PATCH /licenses/:key bodies that carry max_activations only
CapBodies == { [maxActivations |-> <<m>>, expiresAt |-> <<>>] : m \in CapChoices }

CapNext ==
  \/ \E key \in Keys, m \in CapChoices : AdminCreate(key, m, Null)
  \/ \E key \in Keys : CreateBound(Null, key, Null)
  \/ \E key \in Keys, body \in CapBodies : AdminUpdate(key, body)
  \/ \E key \in Keys, d \in Domains : ActivateLicense(key, d, SeqInfo)
  \/ \E key \in Keys, d \in Domains : DeactivateLicense(key, d)

CapSpec == Init /\ [][CapNext]_vars

(***************************************************************************)
(* Properties                                                              *)
(***************************************************************************)
\* expiresAt is set and in the past
PastExpiry(l) == l.expiresAt # Null /\ l.expiresAt[1] < now

\* the active activations of a license on production-classified domains
ProductionCount(licenseId) ==
  Cardinality({a \in activations :
                 a.licenseId = licenseId /\ a.isActive /\ ~IsDevEnvironment(a.domain)})

\* the rows of one (license, domain) pair
RowsOf(licenseId, domain) ==
  {a \in activations : a.licenseId = licenseId /\ a.domain = domain}

\* this step is a call returning; last' describes it
CallStep == last'.seq # last.seq

\* C1: in every reachable state, interleaved activateLicense requests included,
\* the active production activations of a license do not exceed its maxActivations
C1_CapNeverExceeded ==
  \A l \in licenses : ProductionCount(l.id) <= l.maxActivations

\* C2: two concurrent activateLicense requests for two different production
\* domains on an unexpired license with maxActivations = 1 and no activations
\* end with one success and one limit_reached
C2_OneSuccessOneLimit ==
  \A l \in licenses : \A r1, r2 \in Reqs :
    ( /\ r1 # r2
      /\ l.maxActivations = 1 /\ ~PastExpiry(l)
      /\ reqs[r1].pc = "done" /\ reqs[r2].pc = "done"
      /\ reqs[r1].key = l.licenseKey /\ reqs[r2].key = l.licenseKey
      /\ reqs[r1].domain # reqs[r2].domain
      /\ ~IsDevEnvironment(reqs[r1].domain) /\ ~IsDevEnvironment(reqs[r2].domain) )
    => {reqs[r1].result.error, reqs[r2].result.error} = {"none", "limit_reached"}

\* the first k recorded calls are activateLicense calls for key on pairwise
\* distinct production domains
ProductionRun(k, key) ==
  /\ k <= Len(hist)
  /\ \A i \in 1..k :
       /\ hist[i].op = "activate" /\ hist[i].key = key
       /\ ~IsDevEnvironment(hist[i].domain)
       /\ \A j \in 1..k : i # j => hist[i].domain # hist[j].domain

\* C3: on a fresh unexpired license with maxActivations = N, sequential
\* activateLicense calls for N+1 distinct production domains return success
\* N times and then limit_reached
C3_LimitAfterN ==
  \A l \in licenses : \A k \in 1..Len(hist) :
    (ProductionRun(k, l.licenseKey) /\ ~PastExpiry(l) /\ k <= l.maxActivations + 1)
    => IF k <= l.maxActivations
       THEN hist[k].result.ok /\ ~hist[k].result.existing
       ELSE hist[k].result.error = "limit_reached"

C3_Witness ==
  \E l \in licenses :
    /\ l.maxActivations = 2 /\ ~PastExpiry(l)
    /\ ProductionRun(3, l.licenseKey)
    /\ hist[1].result.ok /\ hist[2].result.ok
    /\ hist[3].result.error = "limit_reached"

\* C4: activateLicense for a development domain on an existing unexpired
\* license never returns limit_reached and changes no license's count of active
\* production activations
C4_DevNeverLimited ==
  [][ ( /\ CallStep /\ last'.op = "activate"
        /\ IsDevEnvironment(last'.domain)
        /\ \E l \in licenses : l.licenseKey = last'.key /\ ~PastExpiry(l) )
      => ( /\ last'.result.error # "limit_reached"
           /\ \A l \in licenses : ProductionCount(l.id)' = ProductionCount(l.id) ) ]_vars

\* a development domain was newly activated on a license whose production slots are used up
C4_Witness ==
  /\ last.op = "activate" /\ IsDevEnvironment(last.domain)
  /\ last.result.ok /\ ~last.result.existing
  /\ \E l \in licenses :
       /\ l.licenseKey = last.key /\ ~PastExpiry(l)
       /\ ProductionCount(l.id) >= l.maxActivations

\* at most one row per (license, domain) pair (it holds of the empty table
\* and is stated of the state after every step)
UniquePairs ==
  \A a, b \in activations : (a.licenseId = b.licenseId /\ a.domain = b.domain) => a = b

\* the step kept the set of rows and, of every row, all but the heartbeat and
\* version fields; rows other than those of (licenseId, domain) are untouched
HeartbeatOnly(licenseId, domain) ==
  /\ Cardinality(activations') = Cardinality(activations)
  /\ \A a \in activations : \E b \in activations' :
       /\ b.id = a.id /\ b.licenseId = a.licenseId /\ b.domain = a.domain
       /\ b.isActive = a.isActive /\ b.activatedAt = a.activatedAt
       /\ b.deactivatedAt = a.deactivatedAt
       /\ (a.licenseId # licenseId \/ a.domain # domain) => b = a
  /\ licenses' = licenses /\ auditLog' = auditLog /\ nextActivationId' = nextActivationId

\* C5 as written: one row per pair, and activateLicense for a pair that has an
\* active row returns success, inserts nothing and changes heartbeat/version only
C5_Original ==
  [][ /\ UniquePairs'
      /\ \A l \in licenses :
           ( /\ CallStep /\ last'.op = "activate" /\ last'.key = l.licenseKey
             /\ \E a \in RowsOf(l.id, last'.domain) : a.isActive )
           => (last'.result.ok /\ HeartbeatOnly(l.id, last'.domain)) ]_vars

\* C5 amended: the same, for a license that has not expired
C5_IdempotentReactivation ==
  [][ /\ UniquePairs'
      /\ \A l \in licenses :
           ( /\ CallStep /\ last'.op = "activate" /\ last'.key = l.licenseKey
             /\ ~PastExpiry(l)
             /\ \E a \in RowsOf(l.id, last'.domain) : a.isActive )
           => (last'.result.ok /\ HeartbeatOnly(l.id, last'.domain)) ]_vars

\* a second activation of an active pair returned, later than the first
C5_Witness ==
  /\ last.op = "activate" /\ last.result.ok /\ last.result.existing
  /\ \E l \in licenses : \E a \in RowsOf(l.id, last.domain) :
       /\ l.licenseKey = last.key /\ a.isActive
       /\ a.lastHeartbeat = <<now>> /\ a.activatedAt < now

\* C6: activateLicense for a production domain that is already active on an
\* unexpired license returns success whatever the production count is, the cap
\* included, and takes no slot
C6_ExistingBeforeLimit ==
  [][ \A l \in licenses :
        ( /\ CallStep /\ last'.op = "activate" /\ last'.key = l.licenseKey
          /\ ~PastExpiry(l) /\ ~IsDevEnvironment(last'.domain)
          /\ \E a \in RowsOf(l.id, last'.domain) : a.isActive )
        => ( /\ last'.result.ok /\ last'.result.existing
             /\ ProductionCount(l.id)' = ProductionCount(l.id)
             /\ {a.id : a \in activations'} = {a.id : a \in activations} ) ]_vars

\* the already-active production domain was activated again at the cap
C6_Witness ==
  /\ last.op = "activate" /\ last.result.ok /\ last.result.existing
  /\ ~IsDevEnvironment(last.domain)
  /\ \E l \in licenses :
       /\ l.licenseKey = last.key /\ ~PastExpiry(l)
       /\ ProductionCount(l.id) = l.maxActivations

\* C7: activate A, deactivate A, activate A on a fresh unexpired license: all
\* three calls succeed and A ends with exactly one row, which is active
C7_RoundTrip ==
  \A l \in licenses :
    ( /\ Len(hist) >= 3 /\ ~PastExpiry(l)
      /\ hist[1].op = "activate" /\ hist[2].op = "deactivate" /\ hist[3].op = "activate"
      /\ \A i \in 1..3 : hist[i].key = l.licenseKey /\ hist[i].domain = hist[1].domain )
    => ( /\ \A i \in 1..3 : hist[i].result.ok
         /\ Len(hist) = 3 =>
              /\ Cardinality(RowsOf(l.id, hist[1].domain)) = 1
              /\ \A a \in RowsOf(l.id, hist[1].domain) : a.isActive )

\* C8: every engine call ends in a tagged result, none by an exception (stated
\* of the recorded calls, those of activateLicense and deactivateLicense)
C8_NeverThrows ==
  \A i \in 1..Len(hist) : ~hist[i].result.thrown

\* C9: on a license past its expiresAt, activateLicense and validateLicense
\* fail with expired for every domain, and activateLicense changes nothing
C9_ExpiredFails ==
  [][ ( /\ CallStep /\ last'.op \in {"activate", "validate"}
        /\ \E l \in licenses : l.licenseKey = last'.key /\ PastExpiry(l) )
      => ( /\ last'.result.error = "expired"
           /\ store' = store ) ]_vars

\* activateLicense answered expired for a domain that is active on the license
C9_Witness ==
  /\ last.op = "activate" /\ last.result.error = "expired"
  /\ \E l \in licenses :
       /\ l.licenseKey = last.key /\ PastExpiry(l)
       /\ \E a \in RowsOf(l.id, last.domain) : a.isActive

\* C10: createLicense succeeds also when the generated key is taken: it adds
\* exactly one license, under a key no existing license has
C10_CreateRetries ==
  [][ ( /\ CallStep /\ last'.op = "create"
        /\ \E k \in Keys : ~LicenseKeyTaken(k) )
      => ( /\ last'.result.ok
           /\ \E n \in licenses' :
                /\ licenses' = licenses \cup {n}
                /\ \A l \in licenses : l.licenseKey # n.licenseKey ) ]_vars

\* C11: in every reachable state no two stored licenses share a licenseKey,
\* also after the key generator has returned a key that is in use
C11_UniqueLicenseKeys ==
  \A a, b \in licenses : a.licenseKey = b.licenseKey => a = b

\* createLicense drew the key of a stored license
C11_Witness ==
  /\ last.op = "create" /\ last.result.thrown
  /\ \E l \in licenses : l.licenseKey = last.key

\* the token the call that just returned was given
TokenGiven == lastValidate'.token[1]

\* domain has an active activation on the license stored under key
ActiveOn(key, domain) ==
  \E l \in licenses : \E a \in RowsOf(l.id, domain) : l.licenseKey = key /\ a.isActive

\* this step is validateLicense called with a token the server handed out
ValidateWithIssued ==
  /\ CallStep /\ last'.op = "validate"
  /\ lastValidate'.token # Null /\ TokenGiven \in issued

\* C12: a token is never sufficient.  After deactivateLicense(key, D) succeeded,
\* or the license was deleted, and until D is activated again, validateLicense
\* (key, D, token) with the unexpired token issued for (key, D) is not valid: it
\* answers invalid_key when no license has the key and not_activated when the
\* unexpired license has no active activation for D
C12_TokenNeverSufficient ==
  [][ ( /\ ValidateWithIssued
        /\ TokenGiven.licenseKey = last'.key /\ TokenGiven.domain = last'.domain
        /\ now < TokenGiven.exp
        /\ ~ActiveOn(last'.key, last'.domain) )
      => ( /\ ~last'.result.ok
           /\ (\A l \in licenses : l.licenseKey # last'.key)
                 => last'.result.error = "invalid_key"
           /\ (\E l \in licenses : l.licenseKey = last'.key /\ ~PastExpiry(l))
                 => last'.result.error = "not_activated" ) ]_vars

\* validateLicense was given the unexpired token of a domain deactivated since
C12_Witness ==
  /\ last.op = "validate" /\ last.result.error = "not_activated"
  /\ lastValidate.token # Null /\ lastValidate.token[1] \in issued
  /\ lastValidate.token[1].licenseKey = last.key
  /\ lastValidate.token[1].domain = last.domain
  /\ now < lastValidate.token[1].exp
  /\ \E l \in licenses : \E a \in RowsOf(l.id, last.domain) :
       l.licenseKey = last.key /\ ~a.isActive /\ a.deactivatedAt # Null

\* C13 as written: for every license keyX and distinct domains A and B,
\* validateLicense(keyX, B, token) with a token issued for (keyX, A) fails with
\* token_mismatch, whether or not B has an active activation on keyX
C13_Original ==
  [][ ( /\ ValidateWithIssued
        /\ TokenGiven.licenseKey = last'.key /\ TokenGiven.domain # last'.domain
        /\ \E l \in licenses : l.licenseKey = last'.key )
      => last'.result.error = "token_mismatch" ]_vars

\* C13 amended: with keyX unexpired and the token unexpired, the call fails
\* with token_mismatch when B has an active activation on keyX, and with
\* not_activated when it has none
C13_TokenBoundToDomain ==
  [][ ( /\ ValidateWithIssued
        /\ TokenGiven.licenseKey = last'.key /\ TokenGiven.domain # last'.domain
        /\ now < TokenGiven.exp
        /\ \E l \in licenses : l.licenseKey = last'.key /\ ~PastExpiry(l) )
      => last'.result.error = IF ActiveOn(last'.key, last'.domain)
                              THEN "token_mismatch" ELSE "not_activated" ]_vars

\* the token of one active domain was presented for another active domain
C13_Witness ==
  /\ last.op = "validate" /\ last.result.error = "token_mismatch"
  /\ lastValidate.token # Null /\ lastValidate.token[1] \in issued
  /\ lastValidate.token[1].licenseKey = last.key
  /\ lastValidate.token[1].domain # last.domain
  /\ ActiveOn(last.key, last.domain) /\ ActiveOn(last.key, lastValidate.token[1].domain)

\* C14: validateLicense reports an expired token with an outcome distinct from
\* the one it reports for a malformed or wrongly signed token (stated of every
\* handed-out token past its exp whose domain is active on its unexpired license)
C14_ExpiredTokenDistinct ==
  \A t \in issued :
    ( /\ now >= t.exp
      /\ ActiveOn(t.licenseKey, t.domain)
      /\ \E l \in licenses : l.licenseKey = t.licenseKey /\ ~PastExpiry(l) )
    => /\ ValidateFull(t.licenseKey, t.domain, <<t>>, Null)
            # ValidateFull(t.licenseKey, t.domain, <<Garbage>>, Null)
       /\ ValidateFull(t.licenseKey, t.domain, <<t>>, Null)
            # ValidateFull(t.licenseKey, t.domain, <<Forged(t)>>, Null)

\* the token does not verify, or is not the token of (key, domain)
TokenRejected(t, key, domain) ==
  t.signedBy # "server" \/ now >= t.exp \/ t.domain # domain \/ t.licenseKey # key

\* the outcomes the fixed order allows for a call: those of the first failure
\* condition that applies, "none" when none does
FirstFailure(key, domain, token, productSlug) ==
  LET ls == {l \in licenses : l.licenseKey = key}
  IN IF ls = {} THEN {"invalid_key"}
     ELSE IF /\ productSlug # Null
             /\ \E l \in ls : \E p \in products :
                  l.productId = <<p.id>> /\ <<p.slug>> # productSlug
     THEN {"product_mismatch"}
     ELSE IF \E l \in ls : PastExpiry(l) THEN {"expired"}
     ELSE IF ~ActiveOn(key, domain) THEN {"not_activated"}
     ELSE IF token # Null /\ TokenRejected(token[1], key, domain)
     THEN {"token_mismatch", "invalid_token"}
     ELSE {"none"}

\* C15: validateLicense reports the first failure that applies in the order
\* invalid_key, product_mismatch, expired, not_activated, token check; it is
\* valid exactly when none applies; it never modifies the store
C15_ValidateOrder ==
  [][ (CallStep /\ last'.op = "validate")
      => LET allowed == FirstFailure(last'.key, last'.domain,
                                     lastValidate'.token, lastValidate'.productSlug)
         IN /\ last'.result.error \in allowed
            /\ last'.result.ok <=> (allowed = {"none"})
            /\ ~last'.result.thrown
            /\ store' = store /\ products' = products ]_vars

\* product_mismatch was reported for a call to which the expiry, the activation
\* and the token condition apply as well
C15_Witness ==
  /\ last.op = "validate" /\ last.result.error = "product_mismatch"
  /\ lastValidate.token = <<Garbage>>
  /\ ~ActiveOn(last.key, last.domain)
  /\ \E l \in licenses : l.licenseKey = last.key /\ PastExpiry(l)

\* the call this step recorded
Recorded == hist'[Len(hist')]

\* the active rows of domain on the license stored under key
ActiveRows(key, domain) ==
  {a \in activations : a.domain = domain /\ a.isActive
                        /\ \E l \in licenses : l.licenseKey = key /\ a.licenseId = l.id}

\* C16: deactivateLicense(key, D) fails with invalid_key when no license has
\* the key and with not_found, the store unchanged, when the license has no
\* active activation for D; otherwise it succeeds and sets exactly that
\* activation's isActive to false, with a deactivation timestamp, keeping the
\* row; a second deactivateLicense(key, D) right after fails with not_found
C16_Deactivate ==
  [][ (Len(hist') = Len(hist) + 1 /\ Recorded.op = "deactivate")
      => LET rows == ActiveRows(Recorded.key, Recorded.domain)
         IN /\ (\A l \in licenses : l.licenseKey # Recorded.key)
                 => (Recorded.result.error = "invalid_key" /\ store' = store)
            /\ ((\E l \in licenses : l.licenseKey = Recorded.key) /\ rows = {})
                 => (Recorded.result.error = "not_found" /\ store' = store)
            /\ rows # {}
                 => /\ Recorded.result.ok
                    /\ Cardinality(rows) = 1
                    /\ licenses' = licenses
                    /\ \E b \in activations' :
                         /\ ~b.isActive /\ b.deactivatedAt # Null
                         /\ activations' = (activations \ rows) \cup {b}
                         /\ \E a \in rows :
                              a = [b EXCEPT !.isActive = TRUE, !.deactivatedAt = a.deactivatedAt]
            /\ ( /\ Len(hist) > 0
                 /\ hist[Len(hist)].op = "deactivate" /\ hist[Len(hist)].result.ok
                 /\ hist[Len(hist)].key = Recorded.key
                 /\ hist[Len(hist)].domain = Recorded.domain )
                 => Recorded.result.error = "not_found" ]_vars

\* a deactivation succeeded, the row was kept, and the same call right after
\* failed with not_found
C16_Witness ==
  /\ Len(hist) >= 2
  /\ LET n == Len(hist)
     IN /\ hist[n].op = "deactivate" /\ hist[n].result.error = "not_found"
        /\ hist[n-1].op = "deactivate" /\ hist[n-1].result.ok
        /\ hist[n-1].key = hist[n].key /\ hist[n-1].domain = hist[n].domain
        /\ \E l \in licenses : \E a \in RowsOf(l.id, hist[n].domain) :
             l.licenseKey = hist[n].key /\ ~a.isActive /\ a.deactivatedAt # Null

\* C17: on every license endpoint (activate, deactivate, validate, heartbeat,
\* status) an engine outcome with error invalid_key is answered with status 404
\* and every other engine failure with 400
C17_InvalidKeyIs404 ==
  \A endpoint \in EndpointsOf(last.op) :
    (~last.result.ok /\ ~last.result.thrown)
    => RouteStatus(endpoint, last.result) =
         IF last.result.error = "invalid_key" THEN 404 ELSE 400

\* C18: when appending the audit entry fails during createLicense,
\* activateLicense or deactivateLicense, the call still returns its success
\* result and its store change (license inserted, activation inserted or
\* deactivated) is kept
C18_AuditFailureNotFatal ==
  [][ (CallStep /\ Len(hist') > Len(hist))
      => ( /\ last'.result.ok
           /\ (licenses' # licenses \/ activations' # activations) ) ]_vars

\* the keys of the licenses the admin has deleted
DeletedKeys ==
  {hist[i].key : i \in {j \in 1..Len(hist) : hist[j].op = "delete" /\ hist[j].result.ok}}

SlugsGiven == {Null} \cup {<<g>> : g \in Slugs}

\* C20: deleting (soft-deactivating) or updating a product leaves every license
\* and every activation unchanged, and validateLicense answers for a license
\* bound to the product as it did before; after a deactivation the valid
\* answer names the same product as before
C20_ProductFrame ==
  [][ (CallStep /\ last'.op \in {"updateProduct", "deleteProduct"})
      => ( /\ licenses' = licenses /\ activations' = activations
           /\ \A key \in Keys : \A d \in SiteDomains : \A slug \in SlugsGiven :
                ValidateFull(key, d, Null, slug)' = ValidateFull(key, d, Null, slug)
           /\ last'.op = "deleteProduct"
                => \A key \in Keys : ValidateProductInfo(key)' = ValidateProductInfo(key) ) ]_vars

\* a license bound to a deactivated product validated for its activated domain
C20_Witness ==
  /\ last.op = "validate" /\ last.result.ok
  /\ lastValidate.product # Null
  /\ \E l \in licenses : \E q \in products :
       /\ l.licenseKey = last.key /\ l.productId = <<q.id>> /\ ~q.isActive
       /\ lastValidate.product[1].slug = q.slug

\* C21: in every reachable state every stored license has maxActivations >= 1,
\* whatever input license creation (admin create, webhook create) and the admin
\* license update accepted
C21_CapPositive ==
  \A l \in licenses : l.maxActivations >= 1

\* both workers have answered an activateLicense request for the same license
\* and domain, and both had loaded the activations before either wrote
RacedOnPair(r1, r2) ==
  /\ r1 # r2
  /\ reqs[r1].pc = "done" /\ reqs[r2].pc = "done"
  /\ reqs[r1].license # {} /\ reqs[r2].license = reqs[r1].license
  /\ reqs[r1].domain = reqs[r2].domain
  /\ reqs[r1].acts = {} /\ reqs[r2].acts = {}

\* C22: concurrent first activations of the same (license, domain) pair never
\* leave two rows for that pair: in every reachable state two activation rows
\* of the same license and domain are the same row
C22_OneRowPerPair ==
  \A a, b \in activations :
    (a.licenseId = b.licenseId /\ a.domain = b.domain) => a.id = b.id

\* two requests raced on one pair, and one row stands
C22_Witness ==
  \E r1, r2 \in Reqs :
    /\ RacedOnPair(r1, r2)
    /\ \E l \in reqs[r1].license :
         Cardinality(RowsOf(l.id, reqs[r1].domain)) = 1

\* C23: the racer that loses a concurrent duplicate activation is retried or
\* answered as an idempotent success, never with an error: two requests that
\* raced on one pair both end in success
C23_LosingRacerSucceeds ==
  \A r1, r2 \in Reqs :
    RacedOnPair(r1, r2) =>
      /\ reqs[r1].result.ok /\ ~reqs[r1].result.thrown
      /\ reqs[r2].result.ok /\ ~reqs[r2].result.thrown

\* this step is the answer to the request the server was working on
AnswerStep == http.stage # "answered" /\ http'.stage = "answered"

\* C24: a POST /api/v1/license/validate request whose product_slug differs from
\* the slug of the product the license is bound to is rejected, also when the
\* license is unexpired and activated for the request's domain
C24_RouteChecksProduct ==
  [][ ( /\ AnswerStep /\ http.path = "POST /api/v1/license/validate"
        /\ http.stage # "generalLimiter"
        /\ \E l \in licenses : \E p \in products :
             /\ l.licenseKey = http.key /\ l.productId = <<p.id>>
             /\ http.productSlug # Null /\ http.productSlug # <<p.slug>> )
      => ( /\ ~last'.result.ok
           /\ http'.status = <<400>> ) ]_vars

\* C25: a request to a product endpoint with the correct admin key in x-api-key
\* and no Authorization header passes the whole middleware chain: when it is
\* answered (and not turned away by the rate limiter), the product handler
\* answers it
C25_KeyedRequestReachesHandler ==
  ( /\ http.stage = "answered" /\ http.path = "POST /api/v1/admin/products"
    /\ http.xApiKey = <<AdminApiKey>> /\ http.authorization = Null
    /\ http.by # "generalLimiter" )
  => http.by = "POST /products"

\* C26: POST /api/v1/admin/licenses with the product_slug of an existing product
\* stores a license bound to that product
C26_AdminCreateBinds ==
  [][ ( /\ AnswerStep /\ http.path = "POST /api/v1/admin/licenses"
        /\ http'.status = <<201>> )
      => \A p \in products :
           http.productSlug = <<p.slug>> =>
             \E l \in licenses' : l.licenseKey = http.key /\ l.productId = <<p.id>> ]_vars

\* of every activation row, its id, its pair and whether it is active
Flags(rows) ==
  {[id |-> a.id, licenseId |-> a.licenseId, domain |-> a.domain, isActive |-> a.isActive] :
     a \in rows}

\* C27: recordHeartbeat fails with invalid_key for an unknown key and with
\* not_activated when the license has no active activation for the domain; in
\* every case it keeps the set of activation rows and every row's isActive
\* flag, and so the production count of every license
C27_HeartbeatFrame ==
  [][ (CallStep /\ last'.op = "heartbeat")
      => ( /\ (~\E l \in licenses : l.licenseKey = last'.key)
                => last'.result.error = "invalid_key"
           /\ ( /\ \E l \in licenses : l.licenseKey = last'.key
                /\ ActiveRows(last'.key, last'.domain) = {} )
                => last'.result.error = "not_activated"
           /\ Flags(activations') = Flags(activations)
           /\ \A l \in licenses : ProductionCount(l.id)' = ProductionCount(l.id)
           /\ licenses' = licenses /\ auditLog' = auditLog ) ]_vars

\* a heartbeat was recorded on an active production activation
C27_Witness ==
  /\ last.op = "heartbeat" /\ last.result.ok
  /\ ~IsDevEnvironment(last.domain)
  /\ \E a \in ActiveRows(last.key, last.domain) : a.lastHeartbeat = <<now>>

\* domain d begins with the labels p followed by a dot
HasPrefix(d, p) == Len(d) > Len(p) /\ SubSeq(d, 1, Len(p)) = p

\* domain d ends with a dot followed by the label x
HasSuffix(d, x) == Len(d) > 1 /\ d[Len(d)] = x

\* domain d contains the label x between two dots
HasInfix(d, x) == \E i \in 1..Len(d) : 1 < i /\ i < Len(d) /\ d[i] = x

\* the development rules, of a lower-cased domain
DevelopmentRule(d) ==
  \/ d \in {<<"localhost">>, <<"127", "0", "0", "1">>}
  \/ HasPrefix(d, <<"192", "168">>) \/ HasPrefix(d, <<"10">>)
  \/ \E x \in {"local", "test", "localhost", "dev"} : HasSuffix(d, x)
  \/ \E x \in {"staging", "dev", "test", "local"} : HasPrefix(d, <<x>>)
  \/ \E x \in {"staging", "dev", "test"} : HasInfix(d, x)
  \/ \E x \in {"localwp", "lndo", "ddev"} : HasInfix(d, x)

\* C28: the classifier answers development or production for every domain:
\* development for localhost, site.local, staging.example.com and 10.0.0.5,
\* production for example.com and shop.example.com, and in general development
\* exactly when the lower-cased domain matches one of the rules; the empty
\* domain is production
C28_Classifier ==
  classify.answer # "none" =>
    /\ classify.answer \in {"development", "production"}
    /\ classify.answer = "development" <=> DevelopmentRule(ToLower(classify.domain))
    /\ classify.domain \in {<<"localhost">>, <<"site", "local">>, <<"staging", "example", "com">>,
                              <<"10", "0", "0", "5">>}
          => classify.answer = "development"
    /\ classify.domain \in {<<"example", "com">>, <<"shop", "example", "com">>, <<"">>}
          => classify.answer = "production"

\* a domain written in capitals was classified by its lower-cased form
C28_Witness ==
  /\ classify.domain = <<"STAGING", "example", "com">>
  /\ classify.answer = "development"

\* the active activations of the license with this key
ActiveOf(key) ==
  {a \in activations : a.isActive /\ \E l \in licenses : l.licenseKey = key /\ a.licenseId = l.id}

\* C29: an activateLicense call that fails with limit_reached leaves licenses,
\* activations and the audit log unchanged, and the list it returns is exactly
\* the license's active activations, each with its classification
C29_LimitReachedList ==
  [][ (CallStep /\ last'.op = "activate" /\ last'.result.error = "limit_reached")
      => ( /\ licenses' = licenses /\ activations' = activations /\ auditLog' = auditLog
           /\ last'.result.activations =
                {[domain |-> a.domain, activatedAt |-> a.activatedAt,
                  isDevEnvironment |-> IsDevEnvironment(a.domain)] : a \in ActiveOf(last'.key)} ) ]_vars

\* limit_reached was answered with a list holding a production and a
\* development activation
C29_Witness ==
  /\ last.op = "activate" /\ last.result.error = "limit_reached"
  /\ \E x, y \in last.result.activations : x.isDevEnvironment /\ ~y.isDevEnvironment

\* C30: on a successful first activation the returned productionActivations and
\* devActivations are the numbers of active production and development
\* activations of the license right after the insert, and remaining is
\* maxActivations minus that production count
C30_ReturnedCounts ==
  [][ (CallStep /\ last'.op = "activate" /\ last'.result.ok /\ ~last'.result.existing)
      => \A l \in licenses :
           l.licenseKey = last'.key =>
             LET after == {a \in activations' : a.licenseId = l.id /\ a.isActive}
                 production == Cardinality({a \in after : ~IsDevEnvironment(a.domain)})
                 development == Cardinality({a \in after : IsDevEnvironment(a.domain)})
             IN /\ last'.result.productionActivations = production
                /\ last'.result.devActivations = development
                /\ last'.result.remaining = <<l.maxActivations - production>> ]_vars

\* a first activation of a development domain answered with both counts above 0
C30_Witness ==
  /\ last.op = "activate" /\ last.result.ok /\ ~last.result.existing
  /\ IsDevEnvironment(last.domain)
  /\ last.result.productionActivations = 1 /\ last.result.devActivations = 1

\* C31: the remaining value a successful deactivateLicense returns is
\* maxActivations minus the number of all activations of the license still
\* active after the deactivation, development ones included
C31_DeactivateRemaining ==
  [][ (CallStep /\ last'.op = "deactivate" /\ last'.result.ok)
      => \A l \in licenses :
           l.licenseKey = last'.key =>
             last'.result.remaining =
               <<l.maxActivations
                   - Cardinality({a \in activations' : a.licenseId = l.id /\ a.isActive})>> ]_vars

\* a deactivation succeeded while a development activation of the license
\* stayed active
C31_Witness ==
  /\ last.op = "deactivate" /\ last.result.ok
  /\ \E a \in ActiveOf(last.key) : IsDevEnvironment(a.domain)

\* C32: recordHeartbeat on a license that has an active activation for the
\* domain refreshes that activation's heartbeat and returns success, also when
\* the license is expired; valid is true exactly when the license is not expired
C32_HeartbeatOnExpired ==
  [][ ( /\ CallStep /\ last'.op = "heartbeat"
        /\ ActiveRows(last'.key, last'.domain) # {} )
      => ( /\ last'.result.ok
           /\ \A l \in licenses :
                l.licenseKey = last'.key => (last'.result.valid <=> ~PastExpiry(l))
           /\ \A a \in activations' :
                (a.domain = last'.domain /\ a.isActive /\
                 \E l \in licenses : l.licenseKey = last'.key /\ a.licenseId = l.id)
                  => a.lastHeartbeat = <<now>> ) ]_vars

\* a heartbeat on an expired license was recorded and answered valid = false
C32_Witness ==
  /\ last.op = "heartbeat" /\ last.result.ok /\ ~last.result.valid
  /\ \E l \in licenses : l.licenseKey = last.key /\ PastExpiry(l)
  /\ \E a \in ActiveRows(last.key, last.domain) : a.lastHeartbeat = <<now>> /\ a.activatedAt < now

\* the audit log grew by exactly one entry, with this action and domain, for
\* the license with this key
OneEntryMore(action, key, domain) ==
  /\ Len(auditLog') = Len(auditLog) + 1
  /\ SubSeq(auditLog', 1, Len(auditLog)) = auditLog
  /\ LET e == auditLog'[Len(auditLog')]
     IN /\ e.action = action /\ e.domain = domain
        /\ \E l \in licenses' : l.licenseKey = key /\ l.id = e.licenseId

\* C33: every successful createLicense, every successful first activation of a
\* (license, domain) pair and every successful deactivateLicense appends exactly
\* one audit entry, with action created, activated or deactivated; failed
\* operations, idempotent re-activations, validateLicense and recordHeartbeat
\* append none
C33_AuditEntries ==
  [][ CallStep =>
        IF last'.op = "create" /\ last'.result.ok
        THEN OneEntryMore("created", last'.key, Null)
        ELSE IF last'.op = "activate" /\ last'.result.ok /\ ~last'.result.existing
        THEN OneEntryMore("activated", last'.key, last'.domain)
        ELSE IF last'.op = "deactivate" /\ last'.result.ok
        THEN OneEntryMore("deactivated", last'.key, last'.domain)
        ELSE auditLog' = auditLog ]_vars

\* a license was created, activated and deactivated: three entries
C33_Witness ==
  /\ last.op = "deactivate" /\ last.result.ok
  /\ Len(auditLog) = 3
  /\ auditLog[1].action = "created" /\ auditLog[2].action = "activated"
  /\ auditLog[3].action = "deactivated"

\* C34: the audit log is append-only: no operation, admin license update and
\* admin license deletion included, changes or removes an entry once written;
\* over every step the log before is a prefix of the log after
C34_AuditAppendOnly ==
  [][ /\ Len(auditLog') >= Len(auditLog)
      /\ SubSeq(auditLog', 1, Len(auditLog)) = auditLog ]_vars

\* a license with audit entries was deleted, and its entries are still there
C34_Witness ==
  /\ last.op = "delete" /\ last.result.ok
  /\ \E i \in 1..Len(auditLog) :
       /\ auditLog[i].action = "activated"
       /\ ~\E l \in licenses : l.id = auditLog[i].licenseId

\* C35: the answer of POST /api/v1/customer/login to a well-formed email
\* (status and body) is the same whether or not a license exists for the email
\* and whether or not sending the mail fails; a magic link is sent only when a
\* license exists for the email
C35_LoginTellsNothing ==
  [][ ( /\ CallStep /\ last'.op = "login"
        /\ http'.by = "POST /api/v1/customer/login"
        /\ http'.email # Null /\ http'.email # <<"not-an-email">> )
      => ( /\ \A found \in BOOLEAN, mailFails \in BOOLEAN :
                /\ LoginResponse(http'.email, found, mailFails).status = http'.status[1]
                /\ LoginResponse(http'.email, found, mailFails).body = http'.body
           /\ http'.link # Null =>
                \E l \in licenses : l.email = http'.link[1].email ) ]_vars

\* a login for an address without a license was answered like one with
C35_Witness ==
  /\ last.op = "login" /\ last.result.ok
  /\ http.email = <<"nobody@example.com">> /\ http.link = Null
  /\ \E l \in licenses : l.email = "customer@example.com"

\* the previous call was a successful activateLicense, made at the present
\* time on a license that is unexpired, and this step is a validateLicense call
\* for the same key and domain, without a token or with the token that
\* activation returned
ValidateRightAfterActivate ==
  /\ CallStep /\ last'.op = "validate"
  /\ last.op = "activate" /\ last.result.ok
  /\ last'.key = last.key /\ last'.domain = last.domain
  /\ \E l \in licenses :
       /\ l.licenseKey = last.key /\ ~PastExpiry(l)
       /\ \E a \in activations :
            a.licenseId = l.id /\ a.domain = last.domain /\ a.lastHeartbeat = <<now>>
       /\ \/ lastValidate'.token = Null
          \/ lastValidate'.token =
               << [licenseKey |-> l.licenseKey, domain |-> last.domain,
                   exp |-> IF l.expiresAt # Null THEN l.expiresAt[1] ELSE now + OneYear,
                   signedBy |-> "server"] >>

\* C36: immediately after a successful activateLicense(key, D) on an unexpired
\* license, first activation or re-activation, validateLicense(key, D, token)
\* returns valid = true, with the token that call returned or without a token
C36_ActivateThenValidate ==
  [][ ValidateRightAfterActivate => last'.result.ok ]_vars

\* C37: an admin update that lowers max_activations below the number of active
\* production activations leaves every activation row as it is; from then on
\* every activateLicense for a new production domain fails with limit_reached
\* as long as the active production count is not below max_activations
C37_LoweredCap ==
  [][ CallStep =>
        /\ last'.op = "update" => activations' = activations
        /\ ( /\ last'.op = "activate" /\ ~IsDevEnvironment(last'.domain)
             /\ ActiveRows(last'.key, last'.domain) = {}
             /\ \E l \in licenses :
                  /\ l.licenseKey = last'.key /\ ~PastExpiry(l)
                  /\ ProductionCount(l.id) >= l.maxActivations )
           => ( /\ last'.result.error = "limit_reached"
                /\ activations' = activations ) ]_vars

\* the admin lowered the cap of a license below its active production
\* activations, which are all still active
C37_Witness ==
  /\ last.op = "update" /\ last.result.ok
  /\ \E l \in licenses :
       /\ l.licenseKey = last.key /\ l.maxActivations = 1
       /\ ProductionCount(l.id) = 2

\* C38: the remaining value a successful activateLicense or deactivateLicense
\* returns is never negative, after any sequence of create, activate,
\* deactivate and admin-update operations
C38_RemainingNeverNegative ==
  [][ ( /\ CallStep /\ last'.op \in {"activate", "deactivate"}
        /\ last'.result.ok /\ last'.result.remaining # Null )
      => last'.result.remaining[1] >= 0 ]_vars

\* t is a portal token (type portal_access), t is a token of another kind
IsPortalToken(t) == "type" \in DOMAIN t /\ t.type = "portal_access"

\* C39: the three kinds of token are signed with the same secret, yet the
\* portal's token check accepts only tokens of type portal_access (no token
\* issued by activateLicense or issued as a download token), and a portal token
\* presented to validateLicense never yields valid = true
C39_TokenKindsApart ==
  [][ CallStep =>
        /\ ( /\ last'.op \in {"portal", "download"}
             /\ http'.token # Null /\ ~IsPortalToken(http'.token[1]) )
           => (last'.result.error = "invalid_token" /\ http'.status = <<401>>)
        /\ ( /\ last'.op = "validate"
             /\ lastValidate'.token # Null /\ IsPortalToken(lastValidate'.token[1]) )
           => ~last'.result.ok ]_vars

\* a token activateLicense issued, not expired, was turned away by the portal
C39_Witness ==
  /\ last.op = "portal" /\ last.result.error = "invalid_token"
  /\ http.token # Null
  /\ "licenseKey" \in DOMAIN http.token[1]
  /\ http.token[1].signedBy = "server" /\ now < http.token[1].exp

\* C40: an activation row has a deactivation timestamp exactly when its
\* isActive is false, and isActive only ever changes from true to false: over
\* every step, a row that was deactivated and is still there is still
\* deactivated
C40_DeactivationIsFinal ==
  [][ /\ \A b \in activations' : b.isActive <=> b.deactivatedAt = Null
      /\ \A a \in activations : \A b \in activations' :
           (a.id = b.id /\ ~a.isActive) => (~b.isActive /\ b.deactivatedAt = a.deactivatedAt) ]_vars

\* a deactivated domain was activated again: the call failed and the row is
\* still deactivated, with its timestamp
C40_Witness ==
  /\ last.op = "activate" /\ last.result.thrown
  /\ \E a \in activations :
       /\ a.domain = last.domain /\ ~a.isActive /\ a.deactivatedAt # Null
       /\ \E l \in licenses : l.licenseKey = last.key /\ a.licenseId = l.id

====
